---- MODULE Spec2Model ----
(***************************************************************************)
(* Model of the Mission Trajectory Engine (backend/orbit_engine.py): the   *)
(* lazily grown, append-only mission schedule, the launch-window search    *)
(* that produces its legs, and the time -> mission/phase lookup; and of    *)
(* the simulation server on top of it (backend/main.py): the simulation    *)
(* state, the tick task, the WebSocket command handlers and the broadcast  *)
(* of updates to the connected clients.                                    *)
(*                                                                         *)
(* Spec runs the engine alone, one action per engine method.  ServerSpec   *)
(* runs the server: the tasks of its event loop, one action per stretch of *)
(* code between two suspension points.                                     *)
(*                                                                         *)
(* Time is counted in whole days.  Angles are whole degrees.  Delta-v is   *)
(* counted in 1e-4 AU/day, distances in 1e-5 AU.  The floating point       *)
(* tolerances of the code (1e-9, 1e-12 added to loop limits so that the    *)
(* end point of a grid is included) are exact comparisons on this grid.    *)
(*                                                                         *)
(* The numerical kernels (Kepler solve, Lambert solve, two-body            *)
(* propagation) are not computed.  Their outcomes are functions of their   *)
(* arguments that are fixed for the lifetime of an engine: the variable    *)
(* world holds the parameters of these functions, is chosen once in Init   *)
(* and never changes.  Every world is one possible "physics"; the engine   *)
(* code on top of it is modelled statement by statement.                   *)
(***************************************************************************)
EXTENDS Integers, Sequences, FiniteSets, TLC

VARIABLES
    world,                 \* parameters of the numerical kernels (constant)
    schedules,             \* OrbitEngine._schedules
    schedule_end_times,    \* OrbitEngine._schedule_end_times
    transfer_time_guess,   \* OrbitEngine._transfer_time_guess
    last,                  \* the last call or event: its arguments and what it returned
    search,                \* the locals of a _find_next_lambert_leg call that is
                           \* followed statement by statement
    is_running,            \* sim_state.is_running
    paused,                \* sim_state.paused
    current_time,          \* sim_state.current_time, in tenths of a day
    time_speed,            \* sim_state.time_speed, in tenths of a day per tick
    active_connections,    \* the list active_connections
    handler,               \* per connection: where its websocket_endpoint task stands,
                           \* the command it is handling and the replies it sent for it
    loop,                  \* where the simulation_loop task stands
    broadcast,             \* per task: the locals of its broadcast_to_clients call
    tasks,                 \* the sends not yet carried out, in the order started:
                           \* <<o, i>> the _send_one task of broadcast o for its i-th
                           \* connection, <<c, 0>> the send of initial_data of handler c
    wire,                  \* per connection: the init and update frames written to it
    updates,               \* the number of update messages built so far
    broken                 \* the connections whose peer is gone

\* In the operators below self is the engine as one value,
\* [world, schedules, end_times, guess], as the methods of OrbitEngine see it.

\* the state of the server
server == <<is_running, paused, current_time, time_speed, active_connections,
            handler, loop, broadcast, tasks, wire, updates, broken>>

vars == <<world, schedules, schedule_end_times, transfer_time_guess, last, search, server>>

----------------------------------------------------------------------------
(* Bounds of the model *)

\* no call is made that would grow the schedule beyond this many missions
MaxMissions == 4
\* largest lookahead_missions passed to _ensure_schedules
MaxLookahead == 2
\* number of WebSocket connections the server accepts
MaxConnections == 2
\* number of update messages the server builds
MaxUpdates == 3

----------------------------------------------------------------------------
(* Engine constants, OrbitEngine.__init__ *)

launch_scan_window_days == 1400
launch_refine_window_days == 80
lambert_dt_min_days == 180
lambert_dt_max_days == 450
lambert_dt_step_days == 5
lambert_dt_window_days == 80
lambert_depart_window_days == launch_refine_window_days
lambert_depart_step_days == 2
lambert_phase_scan_step_days == 10
\* 0.006 AU/day in units of 1e-4 AU/day
lambert_max_total_dv == 60
\* initial value of both entries of _transfer_time_guess
InitialTimeGuess == 259
\* 1e-4 AU in units of 1e-5 AU (re-propagation tolerance)
PropagationTol == 10
earth_parking_period_days == 70
mars_parking_period_days == 55
\* 0.25 days in hundredths of a day
clearance_check_dt_days == 25
\* 5e-3 AU in units of 1e-5 AU: below it the clearance is sampled again, finer
clearance_fine_below == 500
\* SimulationState.time_speed = 0.1 days per tick, in tenths of a day
InitialTimeSpeed == 1
\* the server's clock counts tenths of a day
TenthsPerDay == 10
\* orbital periods, rounded to whole days
EarthPeriod == 365
MarsPeriod == 687

Planets == {"earth", "mars"}
Dirs == {<<"earth", "mars">>, <<"mars", "earth">>}

\* the element of a one-element set.  The({e : x \in {v}}) is e with x a
\* local variable holding the value of v
The(S) == CHOOSE y \in S : TRUE

Max(a, b) == IF a >= b THEN a ELSE b
Min(a, b) == IF a <= b THEN a ELSE b
Abs(a) == IF a >= 0 THEN a ELSE -a
\* math.ceil(a / b) for a >= 0, b > 0
CeilDiv(a, b) == (a + b - 1) \div b

----------------------------------------------------------------------------
(* The worlds: parameters of the numerical kernels *)

NoBlackout == <<0, 0>>

\* th0      : heliocentric longitude of each planet at t = 0 (degrees)
\* dv_floor : delta-v of a perfectly phased transfer, per direction
\* blackout : departure epochs [from, to) for which the Lambert solve fails
\* miss_mod : re-propagation misses the arrival point on this pattern (0: never)
\*            and lands exactly on the tolerance on the residue 3
\* graze_mod: the leg comes close to a planet on this pattern (0: never)
MkWorld(th_mars, fl_out, fl_in, bo, mm, gm) ==
    [th0 |-> [earth |-> 100, mars |-> th_mars],
     dv_floor |-> (<<"earth", "mars">> :> fl_out @@ <<"mars", "earth">> :> fl_in),
     blackout |-> bo, miss_mod |-> mm, graze_mod |-> gm]

WorldList ==
    << MkWorld(355, 32, 32, NoBlackout, 0, 0),
       MkWorld(355, 32, 32, NoBlackout, 3, 2),
       MkWorld(150, 32, 36, NoBlackout, 0, 3),
       MkWorld(150, 32, 32, <<0, 400>>, 0, 0),
       MkWorld(240, 40, 32, NoBlackout, 4, 0),
       MkWorld(355, 32, 32, <<1500, 100000>>, 0, 0),
       MkWorld(150, 32, 32, <<2600, 100000>>, 3, 0),
       MkWorld(355, 32, 70, NoBlackout, 0, 0),
       MkWorld(240, 70, 32, NoBlackout, 0, 0),
       MkWorld(355, 32, 32, NoBlackout, 0, 5),
       MkWorld(150, 32, 32, <<4000, 100000>>, 0, 0) >>

Worlds == {WorldList[i] : i \in 1..Len(WorldList)}

----------------------------------------------------------------------------
(* Ephemeris and the numerical outcome of one leg candidate *)

Period(planet) == IF planet = "earth" THEN EarthPeriod ELSE MarsPeriod

\* _theta_xy(get_planet_position(planet, t)): the xy polar angle, in degrees
ThetaDeg(self, planet, t) == (self.world.th0[planet] + (360 * t) \div Period(planet)) % 360

\* _wrap_to_pi, in degrees: the result lies in (-180, 180]
WrapToPi(angle) ==
    LET wrapped == ((angle + 180) % 360) - 180
    IN  IF wrapped # -180 THEN wrapped ELSE 180

\* _lambert_uv returned a velocity pair
LambertSolved(self, source, target, t_depart, dt_days) ==
    ~(self.world.blackout[1] <= t_depart /\ t_depart < self.world.blackout[2])

\* distance between the re-propagated end point and pos_arrive
PropagationMiss(self, source, target, t_depart, dt_days) ==
    LET r == IF self.world.miss_mod = 0 THEN 2
             ELSE (t_depart + dt_days) % self.world.miss_mod
    IN  IF r = 0 THEN 2 * PropagationTol
        ELSE IF r = 3 THEN PropagationTol
        ELSE 3

\* dv1 + dv2 of the leg: |vel_depart - v_source| + |vel_arrive - v_target|
DvCost(self, source, target, t_depart, dt_days) ==
    self.world.dv_floor[<<source, target>>]
      + Abs(WrapToPi(ThetaDeg(self, target, t_depart + dt_days)
                       - (ThetaDeg(self, source, t_depart) + 180)))
      + Abs(dt_days - InitialTimeGuess) \div 8

\* min_clearance(dt_local): the smallest of distance - exclusion radius over
\* both planets and all samples of the leg taken every dt_local (hundredths of
\* a day).  On the graze pattern the leg cuts into an exclusion sphere; on the
\* residues from 3 up it passes near one, and the finer grid, which holds the
\* samples of the coarser one, sees it 150 units closer
MinClearance(self, source, target, t_depart, dt_days, dt_local) ==
    LET r == IF self.world.graze_mod = 0 THEN 1
             ELSE ((t_depart \div 2) + (dt_days \div 5)) % self.world.graze_mod
        coarse == IF r = 0 THEN -20 ELSE IF r >= 3 THEN 100 * (r - 2) ELSE 5000
    IN  IF dt_local < clearance_check_dt_days THEN coarse - 150 ELSE coarse

\* _transfer_leg_clearance_ok(leg)
TransferLegClearanceOk(self, source, target, t_depart, dt_days) ==
    LET dt == Max(1, clearance_check_dt_days)
    IN  IF dt_days <= 0 THEN TRUE
        ELSE The({ IF coarse < 0 THEN FALSE
                   ELSE IF coarse < clearance_fine_below
                   THEN MinClearance(self, source, target, t_depart, dt_days,
                                     Max(1, dt \div 5)) >= 0
                   ELSE TRUE
                 : coarse \in {MinClearance(self, source, target, t_depart, dt_days, dt)} })

----------------------------------------------------------------------------
(* Transfer legs *)

\* the value None of Optional[TransferLeg]
NoLeg ==
    [source |-> "none", target |-> "none", t_depart |-> -1, t_arrive |-> -1,
     duration |-> 0, prograde |-> FALSE, long_way |-> FALSE]

\* _compute_lambert_leg without the re-propagation check
ComputeLambertLeg_NoCheck(self, source, target, t_depart, dt_days, prograde, long_way) ==
    IF dt_days <= 0 THEN NoLeg
    ELSE IF ~LambertSolved(self, source, target, t_depart, dt_days) THEN NoLeg
    ELSE [source |-> source, target |-> target, t_depart |-> t_depart,
          t_arrive |-> t_depart + dt_days, duration |-> dt_days,
          prograde |-> prograde, long_way |-> long_way]

\* _compute_lambert_leg: a leg exists only if the solve succeeded and the
\* re-propagated departure state lands on the arrival point
ComputeLambertLeg(self, source, target, t_depart, dt_days, prograde, long_way) ==
    IF dt_days <= 0 THEN NoLeg
    ELSE IF ~LambertSolved(self, source, target, t_depart, dt_days) THEN NoLeg
    ELSE IF PropagationMiss(self, source, target, t_depart, dt_days) > PropagationTol THEN NoLeg
    ELSE [source |-> source, target |-> target, t_depart |-> t_depart,
          t_arrive |-> t_depart + dt_days, duration |-> dt_days,
          prograde |-> prograde, long_way |-> long_way]

----------------------------------------------------------------------------
(* Launch-window search, _find_next_lambert_leg *)

\* the configured steps and limits after the sanity replacements
DtStep == IF lambert_dt_step_days <= 0 THEN 5 ELSE lambert_dt_step_days
DtMin == IF lambert_dt_min_days <= 0 THEN 1 ELSE lambert_dt_min_days
DtMax == IF lambert_dt_max_days <= DtMin THEN DtMin + DtStep ELSE lambert_dt_max_days
DtWindow == IF lambert_dt_window_days < 0 THEN 0 ELSE lambert_dt_window_days
DepartStep == IF lambert_depart_step_days <= 0 THEN 2 ELSE lambert_depart_step_days
CoarseStep == IF lambert_phase_scan_step_days <= 0 THEN 10 ELSE lambert_phase_scan_step_days

\* synodic period of the two planets, in whole days
Synodic(source, target) ==
    LET p_source == Period(source)
        p_target == Period(target)
    IN  IF p_source > 0 /\ p_target > 0 /\ p_source # p_target
        THEN (p_source * p_target) \div Abs(p_target - p_source)
        ELSE launch_scan_window_days

\* the members of dt_candidates
DtCandidates(dt_guess) ==
    LET dt_start == Max(DtMin, dt_guess - DtWindow)
        dt_end == Min(DtMax, dt_guess + DtWindow)
        grid == IF dt_end < dt_start THEN {}
                ELSE {dt_start + k * DtStep : k \in 0..((dt_end - dt_start) \div DtStep)}
    IN  IF grid # {} THEN grid ELSE {Max(DtMin, Min(DtMax, dt_guess))}

\* the order of dt_candidates after sort(key=lambda d: abs(d - dt_guess)):
\* x stands before y.  The list is built increasing and the sort is stable,
\* so of two candidates equally far from the guess the smaller stands first
Before(x, y, dt_guess) ==
    \/ Abs(x - dt_guess) < Abs(y - dt_guess)
    \/ Abs(x - dt_guess) = Abs(y - dt_guess) /\ x < y

\* phase_error(t_depart), in degrees
PhaseError(self, source, target, dt_guess, t_depart) ==
    WrapToPi(ThetaDeg(self, target, t_depart + dt_guess)
               - (ThetaDeg(self, source, t_depart) + 180))

\* the bisection inside find_next_phase_root, n iterations done.  The code
\* stops when b - a is below its resolution of 1e-6 days, the model when it
\* is down to the grid's resolution of one day
RECURSIVE BisectPhaseRoot(_, _, _, _, _, _, _, _)
BisectPhaseRoot(self, source, target, dt_guess, a, b, err_a, n) ==
    IF n >= 60 THEN (a + b) \div 2
    ELSE The({ IF err_mid = 0 \/ (b - a) <= 1 THEN mid
               ELSE IF err_a * err_mid <= 0
                    THEN BisectPhaseRoot(self, source, target, dt_guess, a, mid, err_a, n + 1)
                    ELSE BisectPhaseRoot(self, source, target, dt_guess, mid, b, err_mid, n + 1)
             : <<mid, err_mid>> \in {<<(a + b) \div 2,
                                      PhaseError(self, source, target, dt_guess, (a + b) \div 2)>>} })

\* find_next_phase_root(t_start): the coarse scan visits t_start + k * CoarseStep
\* and returns at the first k >= 1 at which the previous error is zero or the
\* error changed sign without jumping across the +-180 cut
FindNextPhaseRoot(self, source, target, dt_guess, t_start, t_end) ==
    LET T(k) == t_start + k * CoarseStep
        Err(k) == PhaseError(self, source, target, dt_guess, T(k))
        Returns(k) == \/ Err(k - 1) = 0
                      \/ Err(k - 1) * Err(k) < 0 /\ Abs(Err(k) - Err(k - 1)) < 180
        steps == IF t_end < t_start THEN {} ELSE 1..((t_end - t_start) \div CoarseStep)
    IN  IF \A k \in steps : ~Returns(k) THEN [found |-> FALSE, t |-> 0]
        ELSE The({ [found |-> TRUE,
                    t |-> IF Err(k - 1) = 0 THEN T(k - 1)
                          ELSE BisectPhaseRoot(self, source, target, dt_guess,
                                               T(k - 1), T(k), Err(k - 1), 0)]
                 : k \in {CHOOSE k \in steps :
                              Returns(k) /\ \A j \in steps : j < k => ~Returns(j)} })

\* the loop body without the test of the delta-v budget
Candidate_NoBudget(self, source, target, t_depart, dt) ==
    LET leg == ComputeLambertLeg(self, source, target, t_depart, dt, TRUE, FALSE)
    IN  IF leg = NoLeg THEN NoLeg
        ELSE IF ~TransferLegClearanceOk(self, source, target, t_depart, dt) THEN NoLeg
        ELSE leg

\* the loop body without the clearance test
Candidate_NoClearance(self, source, target, t_depart, dt) ==
    LET leg == ComputeLambertLeg(self, source, target, t_depart, dt, TRUE, FALSE)
    IN  IF leg = NoLeg THEN NoLeg
        ELSE IF DvCost(self, source, target, t_depart, dt) > lambert_max_total_dv THEN NoLeg
        ELSE leg

\* the body of the loop over dt_candidates for one candidate: the leg if it
\* exists, is within the delta-v budget and clears both planets, else NoLeg
\* (continue)
Candidate(self, source, target, t_depart, dt) ==
    LET leg == ComputeLambertLeg(self, source, target, t_depart, dt, TRUE, FALSE)
    IN  IF leg = NoLeg THEN NoLeg
        ELSE IF DvCost(self, source, target, t_depart, dt) > lambert_max_total_dv THEN NoLeg
        ELSE IF ~TransferLegClearanceOk(self, source, target, t_depart, dt) THEN NoLeg
        ELSE leg

\* best_leg after the loop over dt_candidates at one departure epoch:
\* best_cost is replaced only by a strictly smaller cost, so the leg kept is
\* the cheapest one, and of several cheapest the first in the list
BestLegAt(self, source, target, t_depart, cands, dt_guess) ==
    LET Cost(dt) == DvCost(self, source, target, t_depart, dt)
        Beats(x, y) == \/ Cost(x) < Cost(y)
                       \/ Cost(x) = Cost(y) /\ Before(x, y, dt_guess)
    IN  The({ IF kept = {} THEN NoLeg
              ELSE Candidate(self, source, target, t_depart,
                             CHOOSE dt \in kept : \A d \in kept : d = dt \/ Beats(dt, d))
            : kept \in {{dt \in cands :
                           Candidate(self, source, target, t_depart, dt) # NoLeg}} })

\* the departure scan of one window, t_depart = scan_start + k * DepartStep:
\* the best leg of the first epoch that has one
ScanDepartures(self, source, target, cands, dt_guess, scan_start, scan_end) ==
    LET T(k) == scan_start + k * DepartStep
        HasLeg(k) == \E dt \in cands : Candidate(self, source, target, T(k), dt) # NoLeg
        steps == IF scan_end < scan_start THEN {}
                 ELSE 0..((scan_end - scan_start) \div DepartStep)
    IN  IF \A k \in steps : ~HasLeg(k) THEN NoLeg
        ELSE The({ BestLegAt(self, source, target, t_depart, cands, dt_guess)
                 : t_depart \in {T(CHOOSE k \in steps :
                                       HasLeg(k) /\ \A j \in steps : j < k => ~HasLeg(j))} })

\* the loop over the windows; left counts the windows still to be scanned
RECURSIVE ScanWindows(_, _, _, _, _, _, _, _, _)
ScanWindows(self, source, target, cands, dt_guess, earliest, t_end, center, left) ==
    IF left <= 0 THEN NoLeg
    ELSE The({ IF leg # NoLeg THEN leg
               ELSE ScanWindows(self, source, target, cands, dt_guess, earliest, t_end,
                                center + Synodic(source, target), left - 1)
             : leg \in {ScanDepartures(self, source, target, cands, dt_guess,
                                       Max(earliest, center - lambert_depart_window_days),
                                       Min(t_end, center + lambert_depart_window_days))} })

\* the search with one guess for both directions: a leg found sets both
FindNextLambertLeg_SharedGuess(self, source, target, earliest_time) ==
    LET earliest == Max(0, earliest_time)
        t_end == earliest + launch_scan_window_days
        dt_guess == self.guess[<<source, target>>]
        max_windows == CeilDiv(t_end - earliest, Max(1, Synodic(source, target))) + 2
    IN  The({ [leg |-> leg,
               eng |-> IF leg # NoLeg
                       THEN [self EXCEPT !.guess = (<<source, target>> :> leg.duration
                                                      @@ <<target, source>> :> leg.duration)]
                       ELSE self]
            : leg \in {The({ ScanWindows(self, source, target, cands, dt_guess, earliest, t_end,
                                         IF root.found THEN root.t ELSE earliest, max_windows)
                           : <<cands, root>> \in
                               {<<DtCandidates(dt_guess),
                                  FindNextPhaseRoot(self, source, target, dt_guess,
                                                    earliest, t_end)>>} })} })

\* _find_next_lambert_leg(source, target, earliest_time): the leg returned
\* (NoLeg stands for the RuntimeError raised) and the engine afterwards
FindNextLambertLeg(self, source, target, earliest_time) ==
    LET earliest == Max(0, earliest_time)
        t_end == earliest + launch_scan_window_days
        dt_guess == self.guess[<<source, target>>]
        max_windows == CeilDiv(t_end - earliest, Max(1, Synodic(source, target))) + 2
    IN  The({ [leg |-> leg,
               eng |-> IF leg # NoLeg
                       THEN [self EXCEPT !.guess[<<source, target>>] = leg.duration]
                       ELSE self]
            : leg \in {The({ ScanWindows(self, source, target, cands, dt_guess, earliest, t_end,
                                         IF root.found THEN root.t ELSE earliest, max_windows)
                           : <<cands, root>> \in
                               {<<DtCandidates(dt_guess),
                                  FindNextPhaseRoot(self, source, target, dt_guess,
                                                    earliest, t_end)>>} })} })

----------------------------------------------------------------------------
(* The mission schedule *)

Engine(w, s, ends, guess) ==
    [world |-> w, schedules |-> s, end_times |-> ends, guess |-> guess]

\* the engine right after OrbitEngine.__init__
NewEngine(w) ==
    Engine(w, <<>>, <<>>,
           (<<"earth", "mars">> :> InitialTimeGuess @@ <<"mars", "earth">> :> InitialTimeGuess))

\* MissionSchedule(mission_index, t_start, leg_outbound, leg_inbound)
MissionSchedule(mission_index, t_start, leg_out, leg_in) ==
    [mission_index |-> mission_index, t_start |-> t_start,
     leg_outbound |-> leg_out, leg_inbound |-> leg_in]

\* the append, but with the start of every earlier mission reset as well
AppendSchedule_Rebase(self, schedule) ==
    [self EXCEPT !.schedules = Append([i \in 1..Len(@) |-> [@[i] EXCEPT !.t_start = 0]],
                                      schedule),
                 !.end_times = Append(@, schedule.leg_inbound.t_arrive)]

\* the append, but with the start of the mission stored as its end time
AppendSchedule_EndAtStart(self, schedule) ==
    [self EXCEPT !.schedules = Append(@, schedule),
                 !.end_times = Append(@, schedule.t_start)]

\* self._schedules.append(...); self._schedule_end_times.append(...)
AppendSchedule(self, schedule) ==
    [self EXCEPT !.schedules = Append(@, schedule),
                 !.end_times = Append(@, schedule.leg_inbound.t_arrive)]

\* _append_next_schedule with the inbound search started at t_start instead
\* of at leg_out.t_arrive
AppendNextSchedule_InboundFromStart(self) ==
    LET mission_index == Len(self.schedules)
        t_start == IF mission_index = 0 THEN 0
                   ELSE self.schedules[Len(self.schedules)].leg_inbound.t_arrive
    IN  The({ IF out.leg = NoLeg THEN [raised |-> TRUE, eng |-> out.eng]
              ELSE The({ IF inb.leg = NoLeg THEN [raised |-> TRUE, eng |-> inb.eng]
                         ELSE [raised |-> FALSE,
                               eng |-> AppendSchedule(inb.eng, MissionSchedule(
                                           mission_index, t_start, out.leg, inb.leg))]
                       : inb \in {FindNextLambertLeg(out.eng, "mars", "earth", t_start)} })
            : out \in {FindNextLambertLeg(self, "earth", "mars", t_start)} })

\* _append_next_schedule with the mission appended before the inbound leg is
\* searched for, and the inbound leg filled in afterwards
AppendNextSchedule_AppendBeforeInbound(self) ==
    LET mission_index == Len(self.schedules)
        t_start == IF mission_index = 0 THEN 0
                   ELSE self.schedules[Len(self.schedules)].leg_inbound.t_arrive
    IN  The({ IF out.leg = NoLeg THEN [raised |-> TRUE, eng |-> out.eng]
              ELSE The({ IF inb.leg = NoLeg
                         THEN [raised |-> TRUE,
                               eng |-> [inb.eng EXCEPT !.schedules =
                                           Append(@, MissionSchedule(mission_index, t_start,
                                                                     out.leg, NoLeg))]]
                         ELSE [raised |-> FALSE,
                               eng |-> AppendSchedule(inb.eng, MissionSchedule(
                                           mission_index, t_start, out.leg, inb.leg))]
                       : inb \in {FindNextLambertLeg(out.eng, "mars", "earth",
                                                     out.leg.t_arrive)} })
            : out \in {FindNextLambertLeg(self, "earth", "mars", t_start)} })

\* _append_next_schedule: the first search that fails raises, and what the
\* statements before it assigned stays assigned
AppendNextSchedule(self) ==
    LET mission_index == Len(self.schedules)
        t_start == IF mission_index = 0 THEN 0
                   ELSE self.schedules[Len(self.schedules)].leg_inbound.t_arrive
    IN  The({ IF out.leg = NoLeg THEN [raised |-> TRUE, eng |-> out.eng]
              ELSE The({ IF inb.leg = NoLeg THEN [raised |-> TRUE, eng |-> inb.eng]
                         ELSE [raised |-> FALSE,
                               eng |-> AppendSchedule(inb.eng, MissionSchedule(
                                           mission_index, t_start, out.leg, inb.leg))]
                       : inb \in {FindNextLambertLeg(out.eng, "mars", "earth",
                                                     out.leg.t_arrive)} })
            : out \in {FindNextLambertLeg(self, "earth", "mars", t_start)} })

\* The calls of _append_next_schedule an engine of each world makes one after
\* the other, with their results: AppendNextSchedule evaluated once per engine
\* state instead of once per transition.  The schedule changes by these calls
\* only, so the table holds every state an engine goes through.
RECURSIVE AppendChain(_, _)
AppendChain(self, n) ==
    IF n = 0 THEN <<>>
    ELSE The({ IF r.eng = self THEN <<<<self, r>>>>
               ELSE <<<<self, r>>>> \o AppendChain(r.eng, n - 1)
             : r \in {AppendNextSchedule(self)} })

RECURSIVE AppendTableFrom(_)
AppendTableFrom(i) ==
    IF i > Len(WorldList) THEN <<>>
    ELSE AppendChain(NewEngine(WorldList[i]), MaxMissions + 2) \o AppendTableFrom(i + 1)

AppendTable == AppendTableFrom(1)

\* the result the table holds for the engine state self
Lookup(table, self) ==
    table[CHOOSE k \in 1..Len(table) : table[k][1] = self][2]

\* the call self._append_next_schedule()
CallAppendNextSchedule(self) == Lookup(AppendTable, self)

\* bisect_right(a, x) on the sorted list a, with lo and hi as in the library
RECURSIVE BisectRightFrom(_, _, _, _)
BisectRightFrom(a, x, lo, hi) ==
    IF lo >= hi THEN lo
    ELSE LET mid == (lo + hi) \div 2
         IN  IF x < a[mid + 1]
             THEN BisectRightFrom(a, x, lo, mid)
             ELSE BisectRightFrom(a, x, mid + 1, hi)

\* bisect_left(a, x) on integers
BisectLeft(a, x) == BisectRightFrom(a, x - 1, 0, Len(a))

BisectRight(a, x) == BisectRightFrom(a, x, 0, Len(a))

\* if len(_schedule_end_times) != len(_schedules): rebuild the end times
SyncEndTimes(self) ==
    IF Len(self.end_times) # Len(self.schedules)
    THEN [self EXCEPT !.end_times =
             [i \in 1..Len(self.schedules) |-> self.schedules[i].leg_inbound.t_arrive]]
    ELSE self

\* while not _schedules or _schedules[-1].leg_inbound.t_arrive <= t: append
RECURSIVE EnsureCovers(_, _)
EnsureCovers(self, t) ==
    IF (IF self.schedules = <<>> THEN FALSE
        ELSE self.schedules[Len(self.schedules)].leg_inbound.t_arrive > t)
    THEN [raised |-> FALSE, eng |-> self]
    ELSE The({ IF r.raised THEN r ELSE EnsureCovers(r.eng, t)
             : r \in {CallAppendNextSchedule(self)} })

\* the lookahead loop with < for <=
RECURSIVE EnsureLookahead_OneShort(_, _, _)
EnsureLookahead_OneShort(self, current_index, lookahead_missions) ==
    IF Len(self.schedules) >= current_index + lookahead_missions
    THEN [raised |-> FALSE, eng |-> self]
    ELSE The({ IF r.raised THEN r
               ELSE EnsureLookahead_OneShort(r.eng, current_index, lookahead_missions)
             : r \in {CallAppendNextSchedule(self)} })

\* the lookahead loop as a do-while: one append before the first test
EnsureLookahead_AppendFirst(self, current_index, lookahead_missions) ==
    The({ IF r.raised THEN r
          ELSE EnsureLookahead_OneShort(r.eng, current_index, lookahead_missions + 1)
        : r \in {CallAppendNextSchedule(self)} })

\* while len(_schedules) <= current_index + lookahead_missions: append
RECURSIVE EnsureLookahead(_, _, _)
EnsureLookahead(self, current_index, lookahead_missions) ==
    IF Len(self.schedules) > current_index + lookahead_missions
    THEN [raised |-> FALSE, eng |-> self]
    ELSE The({ IF r.raised THEN r
               ELSE EnsureLookahead(r.eng, current_index, lookahead_missions)
             : r \in {CallAppendNextSchedule(self)} })

\* _ensure_schedules(time_days, lookahead_missions=...)
EnsureSchedules(self, time_days, lookahead_missions) ==
    LET t == Max(0, time_days)
    IN  The({ IF covered.raised THEN covered
              ELSE The({ EnsureLookahead(synced, BisectRight(synced.end_times, t),
                                         lookahead_missions)
                       : synced \in {SyncEndTimes(covered.eng)} })
            : covered \in {EnsureCovers(self, t)} })

\* the lookup that returns the last mission scheduled
GetScheduleForTime_Latest(self, time_days) ==
    The({ IF ens.raised
          THEN [raised |-> TRUE, eng |-> ens.eng, idx |-> -1, clamped |-> FALSE]
          ELSE The({ [raised |-> FALSE, eng |-> synced,
                      idx |-> Len(synced.schedules) - 1, clamped |-> TRUE]
                   : synced \in {SyncEndTimes(ens.eng)} })
        : ens \in {EnsureSchedules(self, time_days, 2)} })

\* _get_schedule_for_time(time_days): the index of the schedule returned
\* (counted from 0, as mission_index is) and whether the clamp to the last
\* index was taken
GetScheduleForTime(self, time_days) ==
    The({ IF ens.raised
          THEN [raised |-> TRUE, eng |-> ens.eng, idx |-> -1, clamped |-> FALSE]
          ELSE The({ LET t == Max(0, time_days)
                         idx == BisectRight(synced.end_times, t)
                         clamped == idx >= Len(synced.schedules)
                     IN  [raised |-> FALSE, eng |-> synced,
                          idx |-> IF clamped THEN Len(synced.schedules) - 1 ELSE idx,
                          clamped |-> clamped]
                   : synced \in {SyncEndTimes(ens.eng)} })
        : ens \in {EnsureSchedules(self, time_days, 2)} })

----------------------------------------------------------------------------
(* Phase, position and mission info *)

EARTH_ORBIT_STAY == "earth_orbit_stay"
TRANSFER_TO_MARS == "transfer_to_mars"
MARS_ORBIT_STAY == "mars_orbit_stay"
TRANSFER_TO_EARTH == "transfer_to_earth"

MissionPhase == {EARTH_ORBIT_STAY, TRANSFER_TO_MARS, MARS_ORBIT_STAY, TRANSFER_TO_EARTH}

\* the chain with the departure from Mars still counted as the stay
PhaseOf_InboundLate(schedule, time_days) ==
    IF time_days < schedule.leg_outbound.t_depart THEN EARTH_ORBIT_STAY
    ELSE IF time_days < schedule.leg_outbound.t_arrive THEN TRANSFER_TO_MARS
    ELSE IF time_days <= schedule.leg_inbound.t_depart THEN MARS_ORBIT_STAY
    ELSE TRANSFER_TO_EARTH

\* the chain with the launch instant still counted as the stay
PhaseOf_LaunchLate(schedule, time_days) ==
    IF time_days <= schedule.leg_outbound.t_depart THEN EARTH_ORBIT_STAY
    ELSE IF time_days < schedule.leg_outbound.t_arrive THEN TRANSFER_TO_MARS
    ELSE IF time_days < schedule.leg_inbound.t_depart THEN MARS_ORBIT_STAY
    ELSE TRANSFER_TO_EARTH

\* the if/elif chain of get_mission_phase
PhaseOf(schedule, time_days) ==
    IF time_days < schedule.leg_outbound.t_depart THEN EARTH_ORBIT_STAY
    ELSE IF time_days < schedule.leg_outbound.t_arrive THEN TRANSFER_TO_MARS
    ELSE IF time_days < schedule.leg_inbound.t_depart THEN MARS_ORBIT_STAY
    ELSE TRANSFER_TO_EARTH

\* get_mission_phase(time_days): (phase, mission_number, time_in_mission)
GetMissionPhase(self, time_days) ==
    The({ IF got.raised
          THEN [raised |-> TRUE, eng |-> got.eng, phase |-> "none",
                mission_number |-> -1, time_in_mission |-> 0]
          ELSE LET schedule == got.eng.schedules[got.idx + 1]
               IN  [raised |-> FALSE, eng |-> got.eng,
                    phase |-> PhaseOf(schedule, time_days),
                    mission_number |-> schedule.mission_index,
                    time_in_mission |-> time_days - schedule.t_start]
        : got \in {GetScheduleForTime(self, time_days)} })

\* round(a / b) for a >= 0, b > 0: Python rounds halves to the even neighbour
RoundDiv(a, b) ==
    LET q == a \div b
        r == a % b
    IN  IF 2 * r < b THEN q
        ELSE IF 2 * r > b THEN q + 1
        ELSE IF q % 2 = 0 THEN q ELSE q + 1

\* _fit_parking_period: the stay is split into whole revolutions.  The floor
\* of 1e-6 days under both arguments is one grid step here
FitParkingPeriod(duration_days, nominal_period_days) ==
    LET duration == Max(1, duration_days)
        nominal == Max(1, nominal_period_days)
        revolutions == Max(1, RoundDiv(duration, nominal))
    IN  [duration |-> duration, revolutions |-> revolutions]

\* _parking_position: the planet the craft circles, where the planet is, and
\* the angle phi = omega * (time_days - t_anchor) on the parking circle, in
\* degrees; period is duration / revolutions
ParkingPosition(self, planet, time_days, t_anchor, period) ==
    [kind |-> "parking", body |-> planet, at |-> ThetaDeg(self, planet, time_days),
     phi |-> ((360 * (time_days - t_anchor) * period.revolutions) \div period.duration) % 360]

\* _get_transfer_position: the leg's end points outside the leg, the
\* propagated state after dt days of flight inside
GetTransferPosition(self, leg, time_days) ==
    IF time_days <= leg.t_depart
    THEN [kind |-> "transfer", body |-> leg.source, at |-> leg.t_depart, phi |-> 0]
    ELSE IF time_days >= leg.t_arrive
    THEN [kind |-> "transfer", body |-> leg.source, at |-> leg.t_depart, phi |-> leg.duration]
    ELSE [kind |-> "transfer", body |-> leg.source, at |-> leg.t_depart,
          phi |-> time_days - leg.t_depart]

NoPosition == [kind |-> "none", body |-> "none", at |-> 0, phi |-> 0]

\* get_spacecraft_position(time_days)
GetSpacecraftPosition(self, time_days) ==
    The({ IF ph.raised THEN [raised |-> TRUE, eng |-> ph.eng, pos |-> NoPosition]
          ELSE The({
              IF got.raised THEN [raised |-> TRUE, eng |-> got.eng, pos |-> NoPosition]
              ELSE LET schedule == got.eng.schedules[got.idx + 1]
                       earth_wait == schedule.leg_outbound.t_depart - schedule.t_start
                       mars_wait == schedule.leg_inbound.t_depart
                                      - schedule.leg_outbound.t_arrive
                   IN  [raised |-> FALSE, eng |-> got.eng,
                        pos |->
                          IF ph.phase = EARTH_ORBIT_STAY
                          THEN ParkingPosition(got.eng, "earth", time_days, schedule.t_start,
                                   FitParkingPeriod(earth_wait, earth_parking_period_days))
                          ELSE IF ph.phase = TRANSFER_TO_MARS
                          THEN GetTransferPosition(got.eng, schedule.leg_outbound, time_days)
                          ELSE IF ph.phase = MARS_ORBIT_STAY
                          THEN ParkingPosition(got.eng, "mars", time_days,
                                   schedule.leg_outbound.t_arrive,
                                   FitParkingPeriod(mars_wait, mars_parking_period_days))
                          ELSE GetTransferPosition(got.eng, schedule.leg_inbound, time_days)]
              : got \in {GetScheduleForTime(ph.eng, time_days)} })
        : ph \in {GetMissionPhase(self, time_days)} })

\* the dict built for 'mission_schedule'
ScheduleDict(schedule) ==
    [mission_index |-> schedule.mission_index,
     t_start |-> schedule.t_start,
     t_launch_earth |-> schedule.leg_outbound.t_depart,
     t_arrival_mars |-> schedule.leg_outbound.t_arrive,
     t_depart_mars |-> schedule.leg_inbound.t_depart,
     t_arrival_earth |-> schedule.leg_inbound.t_arrive,
     earth_wait |-> schedule.leg_outbound.t_depart - schedule.t_start,
     mars_wait |-> schedule.leg_inbound.t_depart - schedule.leg_outbound.t_arrive,
     transfer_earth_mars |-> schedule.leg_outbound.duration,
     transfer_mars_earth |-> schedule.leg_inbound.duration]

\* 'progress', in thousandths
Progress(time_in_mission, mission_duration) ==
    IF mission_duration <= 0 THEN 0
    ELSE Max(0, Min(1000, (1000 * time_in_mission) \div mission_duration))

NoInfo == <<>>

\* the dict with mission_duration taken from the last mission scheduled
InfoDict_LastMission(self, schedule, ph, sp, time_days) ==
    LET final == self.schedules[Len(self.schedules)]
        mission_duration == final.leg_inbound.t_arrive - final.t_start
    IN  [time_days |-> time_days,
         mission_number |-> ph.mission_number,
         phase |-> ph.phase,
         time_in_mission |-> ph.time_in_mission,
         mission_duration |-> mission_duration,
         mission_schedule |-> ScheduleDict(schedule),
         timeline_horizon_end |-> final.leg_inbound.t_arrive,
         earth_position |-> ThetaDeg(self, "earth", time_days),
         mars_position |-> ThetaDeg(self, "mars", time_days),
         spacecraft_position |-> sp.pos,
         progress |-> Progress(ph.time_in_mission, mission_duration)]

\* the dict get_mission_info returns (without the velocities and the
\* distance, which are functions of time_days alone); ph and sp are what
\* get_mission_phase and get_spacecraft_position returned
InfoDict(self, schedule, ph, sp, time_days) ==
    LET mission_duration == schedule.leg_inbound.t_arrive - schedule.t_start
        horizon_end ==
            IF self.schedules # <<>>
            THEN self.schedules[Len(self.schedules)].leg_inbound.t_arrive
            ELSE schedule.leg_inbound.t_arrive
    IN  [time_days |-> time_days,
         mission_number |-> ph.mission_number,
         phase |-> ph.phase,
         time_in_mission |-> ph.time_in_mission,
         mission_duration |-> mission_duration,
         mission_schedule |-> ScheduleDict(schedule),
         timeline_horizon_end |-> horizon_end,
         earth_position |-> ThetaDeg(self, "earth", time_days),
         mars_position |-> ThetaDeg(self, "mars", time_days),
         spacecraft_position |-> sp.pos,
         progress |-> Progress(ph.time_in_mission, mission_duration)]

\* get_mission_info(time_days)
GetMissionInfo(self, time_days_arg) ==
    LET time_days == Max(0, time_days_arg)
    IN  The({
          IF sp.raised THEN [raised |-> TRUE, eng |-> sp.eng, info |-> NoInfo]
          ELSE The({
            IF ph.raised THEN [raised |-> TRUE, eng |-> ph.eng, info |-> NoInfo]
            ELSE The({
              IF got.raised THEN [raised |-> TRUE, eng |-> got.eng, info |-> NoInfo]
              ELSE [raised |-> FALSE, eng |-> got.eng,
                    info |-> InfoDict(got.eng, got.eng.schedules[got.idx + 1],
                                      ph, sp, time_days)]
              : got \in {GetScheduleForTime(ph.eng, time_days)} })
            : ph \in {GetMissionPhase(sp.eng, time_days)} })
          : sp \in {GetSpacecraftPosition(self, time_days)} })

\* one entry of the preview list
PreviewDict(schedule) ==
    [mission_index |-> schedule.mission_index,
     t_start |-> schedule.t_start,
     t_launch_earth |-> schedule.leg_outbound.t_depart,
     t_arrival_mars |-> schedule.leg_outbound.t_arrive,
     t_depart_mars |-> schedule.leg_inbound.t_depart,
     t_arrival_earth |-> schedule.leg_inbound.t_arrive,
     mission_duration |-> schedule.leg_inbound.t_arrive - schedule.t_start,
     earth_wait |-> schedule.leg_outbound.t_depart - schedule.t_start,
     mars_wait |-> schedule.leg_inbound.t_depart - schedule.leg_outbound.t_arrive,
     transfer_earth_mars |-> schedule.leg_outbound.duration,
     transfer_mars_earth |-> schedule.leg_inbound.duration]

\* the preview with a lookahead of num_missions - 2
GetSchedulePreview_ShortLookahead(self, num_missions) ==
    IF num_missions <= 0 THEN [raised |-> FALSE, eng |-> self, preview |-> <<>>]
    ELSE The({ IF ens.raised THEN [raised |-> TRUE, eng |-> ens.eng, preview |-> <<>>]
               ELSE [raised |-> FALSE, eng |-> ens.eng,
                     preview |-> [i \in 1..Min(num_missions, Len(ens.eng.schedules)) |->
                                      PreviewDict(ens.eng.schedules[i])]]
             : ens \in {EnsureSchedules(self, 0, Max(0, num_missions - 2))} })

\* get_schedule_preview(num_missions)
GetSchedulePreview(self, num_missions) ==
    IF num_missions <= 0 THEN [raised |-> FALSE, eng |-> self, preview |-> <<>>]
    ELSE The({ IF ens.raised THEN [raised |-> TRUE, eng |-> ens.eng, preview |-> <<>>]
               ELSE [raised |-> FALSE, eng |-> ens.eng,
                     preview |-> [i \in 1..Min(num_missions, Len(ens.eng.schedules)) |->
                                      PreviewDict(ens.eng.schedules[i])]]
             : ens \in {EnsureSchedules(self, 0, Max(0, num_missions - 1))} })

----------------------------------------------------------------------------
(* The engine as a state machine: one action per method called on it *)

\* the engine in the current state
Self == Engine(world, schedules, schedule_end_times, transfer_time_guess)

\* the engine's fields after a call
Becomes(eng) ==
    /\ world' = eng.world
    /\ schedules' = eng.schedules
    /\ schedule_end_times' = eng.end_times
    /\ transfer_time_guess' = eng.guess

\* the instants at which the schedule built so far changes phase
Timestamps ==
    UNION {{schedules[k].t_start,
            schedules[k].leg_outbound.t_depart, schedules[k].leg_outbound.t_arrive,
            schedules[k].leg_inbound.t_depart, schedules[k].leg_inbound.t_arrive}
           : k \in 1..Len(schedules)}

\* the times a caller asks about: a negative one, zero, every phase change,
\* and the day before each
QueryTimes == {-7, 0} \cup Timestamps \cup {ts - 1 : ts \in Timestamps}

\* the call keeps the schedule within MaxMissions missions
WithinBound(time_days, lookahead_missions) ==
    /\ IF schedules = <<>> THEN TRUE
       ELSE time_days <= schedules[Len(schedules)].leg_inbound.t_arrive
    /\ BisectRight(schedule_end_times, Max(0, time_days)) + lookahead_missions + 1
         <= MaxMissions

\* the connections the server will accept, and the tasks that broadcast:
\* the simulation_loop task (0) and the handler task of each connection
Connections == 1..MaxConnections
Tasks == {0} \cup Connections

\* the locals of a task that has not called broadcast_to_clients
NoBroadcast == [message |-> <<>>, connections |-> <<>>, results |-> <<>>]

\* no launch-window search is followed statement by statement
NoSearch == [pc |-> "idle"]

\* the module right after import: SimulationState.__init__, no connection,
\* the simulation_loop task created by lifespan
ServerStart ==
    /\ is_running = FALSE
    /\ paused = FALSE
    /\ current_time = 0
    /\ time_speed = InitialTimeSpeed
    /\ active_connections = <<>>
    /\ handler = [c \in Connections |->
                    [pc |-> "idle", command |-> "", sent |-> <<>>]]
    /\ loop = "sleep"
    /\ broadcast = [o \in Tasks |-> NoBroadcast]
    /\ tasks = <<>>
    /\ wire = [c \in Connections |-> <<>>]
    /\ updates = 0
    /\ broken = {}

Init ==
    /\ world \in Worlds
    /\ schedules = <<>>
    /\ schedule_end_times = <<>>
    /\ transfer_time_guess = NewEngine(world).guess
    /\ last = [op |-> "init", t |-> 0, n |-> 0, raised |-> FALSE, ret |-> <<>>]
    /\ search = NoSearch
    /\ ServerStart

ensure_schedules(time_days, lookahead_missions) ==
    /\ WithinBound(time_days, lookahead_missions)
    /\ UNCHANGED <<search, server>>
    /\ \E r \in {EnsureSchedules(Self, time_days, lookahead_missions)} :
         /\ Becomes(r.eng)
         /\ last' = [op |-> "ensure_schedules", t |-> time_days, n |-> lookahead_missions,
                     raised |-> r.raised, ret |-> <<>>]

get_schedule_for_time(time_days) ==
    /\ WithinBound(time_days, 2)
    /\ UNCHANGED <<search, server>>
    /\ \E r \in {GetScheduleForTime(Self, time_days)} :
         /\ Becomes(r.eng)
         /\ last' = [op |-> "get_schedule_for_time", t |-> time_days, n |-> 2,
                     raised |-> r.raised,
                     ret |-> [idx |-> r.idx, clamped |-> r.clamped]]

get_mission_phase(time_days) ==
    /\ WithinBound(time_days, 2)
    /\ UNCHANGED <<search, server>>
    /\ \E r \in {GetMissionPhase(Self, time_days)} :
         /\ Becomes(r.eng)
         /\ last' = [op |-> "get_mission_phase", t |-> time_days, n |-> 2,
                     raised |-> r.raised,
                     ret |-> [phase |-> r.phase, mission_number |-> r.mission_number,
                              time_in_mission |-> r.time_in_mission]]

get_spacecraft_position(time_days) ==
    /\ WithinBound(time_days, 2)
    /\ UNCHANGED <<search, server>>
    /\ \E r \in {GetSpacecraftPosition(Self, time_days)} :
         /\ Becomes(r.eng)
         /\ last' = [op |-> "get_spacecraft_position", t |-> time_days, n |-> 2,
                     raised |-> r.raised, ret |-> r.pos]

get_mission_info(time_days) ==
    /\ WithinBound(time_days, 2)
    /\ UNCHANGED <<search, server>>
    /\ \E r \in {GetMissionInfo(Self, time_days)} :
         /\ Becomes(r.eng)
         /\ last' = [op |-> "get_mission_info", t |-> time_days, n |-> 2,
                     raised |-> r.raised, ret |-> r.info]

get_schedule_preview(num_missions) ==
    /\ WithinBound(0, Max(0, num_missions - 1))
    /\ UNCHANGED <<search, server>>
    /\ \E r \in {GetSchedulePreview(Self, num_missions)} :
         /\ Becomes(r.eng)
         /\ last' = [op |-> "get_schedule_preview", t |-> 0, n |-> num_missions,
                     raised |-> r.raised, ret |-> r.preview]

Next ==
    \/ \E t \in QueryTimes, n \in 0..MaxLookahead : ensure_schedules(t, n)
    \/ \E t \in QueryTimes : get_schedule_for_time(t)
    \/ \E t \in QueryTimes : get_mission_phase(t)
    \/ \E t \in QueryTimes : get_spacecraft_position(t)
    \/ \E t \in QueryTimes : get_mission_info(t)
    \/ \E n \in 0..(MaxLookahead + 1) : get_schedule_preview(n)

Spec == Init /\ [][Next]_vars

----------------------------------------------------------------------------
(* Properties of the schedule and of the lookup *)

\* the last call was op and it returned
Returned(op) == last.op = op /\ ~last.raised

\* end time of the last mission scheduled
LastEnd == schedules[Len(schedules)].leg_inbound.t_arrive

\* current_index of _ensure_schedules for time t, in the current state
CurrentIndex(t) == BisectRight(schedule_end_times, Max(0, t))

IsPrefix(s, t) == Len(s) <= Len(t) /\ \A i \in 1..Len(s) : s[i] = t[i]

\* C1: in every reachable state every schedule entry k has
\* t_start <= out.t_depart < out.t_arrive <= in.t_depart < in.t_arrive, the
\* first entry starts at 0 and every other one starts where the one before it
\* ends, so starts and ends increase strictly along the schedule.
C1_ScheduleOrdered ==
    \A k \in 1..Len(schedules) :
        LET s == schedules[k]
        IN  /\ s.t_start <= s.leg_outbound.t_depart
            /\ s.leg_outbound.t_depart < s.leg_outbound.t_arrive
            /\ s.leg_outbound.t_arrive <= s.leg_inbound.t_depart
            /\ s.leg_inbound.t_depart < s.leg_inbound.t_arrive
            /\ (k = 1 => s.t_start = 0)
            /\ (k > 1 => /\ s.t_start = schedules[k - 1].leg_inbound.t_arrive
                         /\ schedules[k - 1].t_start < s.t_start
                         /\ schedules[k - 1].leg_inbound.t_arrive < s.leg_inbound.t_arrive)

\* three missions are scheduled and the first launches the instant it starts
C1_Witness ==
    /\ Len(schedules) >= 3
    /\ schedules[1].t_start = schedules[1].leg_outbound.t_depart

\* C2: for t >= 0 _get_schedule_for_time returns the one mission whose
\* interval [t_start, leg_inbound.t_arrive) holds t, the clamp to the last
\* index is not taken, and the time_in_mission reported by get_mission_phase
\* and get_mission_info lies in [0, mission_duration).
C2_LookupSelectsContainingMission ==
    /\ (Returned("get_schedule_for_time") /\ last.t >= 0) =>
          /\ ~last.ret.clamped
          /\ last.ret.idx + 1 \in 1..Len(schedules)
          /\ \A j \in 1..Len(schedules) :
                (schedules[j].t_start <= last.t
                    /\ last.t < schedules[j].leg_inbound.t_arrive)
                  <=> (j = last.ret.idx + 1)
    /\ (Returned("get_mission_phase") /\ last.t >= 0) =>
          LET s == schedules[last.ret.mission_number + 1]
          IN  /\ 0 <= last.ret.time_in_mission
              /\ last.ret.time_in_mission < s.leg_inbound.t_arrive - s.t_start
    /\ Returned("get_mission_info") =>
          /\ 0 <= last.ret.time_in_mission
          /\ last.ret.time_in_mission < last.ret.mission_duration

\* the lookup was asked for the very instant the first mission ends
C2_Witness ==
    /\ Returned("get_schedule_for_time")
    /\ last.t > 0
    /\ last.t = schedules[1].leg_inbound.t_arrive
    /\ last.ret.idx = 1

\* C3 as stated: for every mission k and every t with
\* in.t_depart <= t <= in.t_arrive, both ends included, get_mission_phase(t)
\* reports TRANSFER_TO_EARTH with mission_number k.
C3_InboundClosedInterval ==
    Returned("get_mission_phase") =>
        \A k \in 1..Len(schedules) :
            (schedules[k].leg_inbound.t_depart <= last.t
                /\ last.t <= schedules[k].leg_inbound.t_arrive)
              => /\ last.ret.phase = TRANSFER_TO_EARTH
                 /\ last.ret.mission_number = k - 1

\* C3 amended: for every mission k and every t with
\* in.t_depart <= t < in.t_arrive get_mission_phase(t) reports
\* TRANSFER_TO_EARTH with mission_number k; at t = in.t_arrive it reports
\* mission k + 1, in its Earth stay or, if that is empty, on its way to Mars.
C3_InboundHalfOpen ==
    Returned("get_mission_phase") =>
        \A k \in 1..Len(schedules) :
            /\ (schedules[k].leg_inbound.t_depart <= last.t
                   /\ last.t < schedules[k].leg_inbound.t_arrive)
                 => /\ last.ret.phase = TRANSFER_TO_EARTH
                    /\ last.ret.mission_number = k - 1
            /\ (last.t = schedules[k].leg_inbound.t_arrive)
                 => /\ last.ret.phase \in {EARTH_ORBIT_STAY, TRANSFER_TO_MARS}
                    /\ last.ret.mission_number = k

\* the phase was asked for on the last day of the second mission
C3_Witness ==
    /\ Returned("get_mission_phase")
    /\ Len(schedules) >= 2
    /\ last.t = schedules[2].leg_inbound.t_arrive - 1
    /\ last.ret.phase = TRANSFER_TO_EARTH

\* position of a phase in the cycle of one mission
PhaseRank(phase) ==
    CASE phase = EARTH_ORBIT_STAY -> 0
      [] phase = TRANSFER_TO_MARS -> 1
      [] phase = MARS_ORBIT_STAY -> 2
      [] phase = TRANSFER_TO_EARTH -> 3

\* C4: for t >= 0 get_mission_phase(t) returns one of the four phases; in
\* the mission selected it is EARTH_ORBIT_STAY iff t_start <= t < out.t_depart,
\* TRANSFER_TO_MARS iff out.t_depart <= t < out.t_arrive, MARS_ORBIT_STAY iff
\* out.t_arrive <= t < in.t_depart, TRANSFER_TO_EARTH otherwise; and for an
\* earlier time the engine reports an earlier mission, or the same mission
\* and a phase not later in the cycle.
C4_PhaseTotalAndCyclic ==
    (Returned("get_mission_phase") /\ last.t >= 0) =>
        LET t == last.t
            s == schedules[last.ret.mission_number + 1]
        IN  /\ last.ret.phase \in MissionPhase
            /\ (last.ret.phase = EARTH_ORBIT_STAY)
                 <=> (s.t_start <= t /\ t < s.leg_outbound.t_depart)
            /\ (last.ret.phase = TRANSFER_TO_MARS)
                 <=> (s.leg_outbound.t_depart <= t /\ t < s.leg_outbound.t_arrive)
            /\ (last.ret.phase = MARS_ORBIT_STAY)
                 <=> (s.leg_outbound.t_arrive <= t /\ t < s.leg_inbound.t_depart)
            /\ (last.ret.phase = TRANSFER_TO_EARTH)
                 <=> (s.leg_inbound.t_depart <= t)
            /\ \A t1 \in QueryTimes :
                 (0 <= t1 /\ t1 < t) =>
                    \E r1 \in {GetMissionPhase(Self, t1)} :
                       /\ ~r1.raised
                       /\ \/ r1.mission_number < last.ret.mission_number
                          \/ /\ r1.mission_number = last.ret.mission_number
                             /\ PhaseRank(r1.phase) <= PhaseRank(last.ret.phase)

\* a mission with an empty Earth stay: at its start the craft is already on
\* its way to Mars, and the stay on Mars of the second mission is reported
C4_Witness ==
    /\ Returned("get_mission_phase")
    /\ \/ /\ last.t = 0
          /\ last.ret.phase = TRANSFER_TO_MARS
       \/ /\ last.ret.mission_number = 1
          /\ last.ret.phase = MARS_ORBIT_STAY

\* what an engine just constructed returns for the time of the last call
FreshInfo == GetMissionInfo(NewEngine(world), last.t)

\* C5 as stated: get_mission_info(t) returns the same value in every field,
\* timeline_horizon_end included, whatever was asked of the engine before.
C5_InfoPureInEveryField ==
    Returned("get_mission_info") =>
        \E fresh \in {FreshInfo} : ~fresh.raised /\ fresh.info = last.ret

\* C5 amended: whatever was asked of the engine before, get_mission_info(t)
\* returns the same value in every field other than timeline_horizon_end;
\* timeline_horizon_end is the end of the last mission scheduled so far,
\* never less than what an engine just constructed reports.
C5_InfoPureExceptHorizon ==
    Returned("get_mission_info") =>
        \E fresh \in {FreshInfo} :
            /\ ~fresh.raised
            /\ \A field \in (DOMAIN last.ret) \ {"timeline_horizon_end"} :
                  fresh.info[field] = last.ret[field]
            /\ fresh.info.timeline_horizon_end <= last.ret.timeline_horizon_end
            /\ last.ret.timeline_horizon_end = LastEnd

\* the info for a time in the first mission, asked after the schedule had
\* grown beyond what that time needs
C5_Witness ==
    /\ Returned("get_mission_info")
    /\ last.ret.mission_number = 0
    /\ Len(schedules) > 3
    /\ last.ret.timeline_horizon_end > schedules[3].leg_inbound.t_arrive

\* C6: the schedule before any engine operation is a prefix of the schedule
\* after it: missions are only appended and no field of an appended mission
\* or leg changes.
C6_AppendOnly == [][IsPrefix(schedules, schedules')]_vars

\* the schedule has grown in more than one call
C6_Witness ==
    /\ Len(schedules) >= 4
    /\ last.op \in {"get_mission_info", "get_mission_phase", "get_spacecraft_position"}

\* C7 as stated: after _ensure_schedules(t, lookahead) the last end time is
\* greater than t and len - 1 - current_index >= lookahead + 1.
C7_LookaheadPlusOne ==
    Returned("ensure_schedules") =>
        /\ schedules # <<>>
        /\ LastEnd > last.t
        /\ Len(schedules) - 1 - CurrentIndex(last.t) >= last.n + 1

\* C7 amended: after _ensure_schedules(t, lookahead) the last end time is
\* greater than t and at least lookahead missions sit beyond the one that
\* holds t: len - 1 - current_index >= lookahead.
C7_Lookahead ==
    Returned("ensure_schedules") =>
        /\ schedules # <<>>
        /\ LastEnd > last.t
        /\ Len(schedules) - 1 - CurrentIndex(last.t) >= last.n

\* a call for a time in a later mission that left exactly lookahead missions
\* beyond it
C7_Witness ==
    /\ Returned("ensure_schedules")
    /\ last.n = 2
    /\ CurrentIndex(last.t) = 1
    /\ Len(schedules) - 1 - CurrentIndex(last.t) = 2

\* the two conditions _ensure_schedules(t, n) establishes
CoverageHolds(t, n) ==
    /\ schedules # <<>>
    /\ LastEnd > Max(0, t)
    /\ Len(schedules) > CurrentIndex(t) + n

\* C8: _ensure_schedules called again right after a call that returned, with
\* the same arguments, changes nothing; and in any state a call whose two
\* coverage conditions already hold changes nothing.
C8_EnsureIdempotent ==
    /\ Returned("ensure_schedules") =>
          EnsureSchedules(Self, last.t, last.n) = [raised |-> FALSE, eng |-> Self]
    /\ \A t \in QueryTimes, n \in 0..MaxLookahead :
          CoverageHolds(t, n) =>
              EnsureSchedules(Self, t, n) = [raised |-> FALSE, eng |-> Self]

\* a call with lookahead 2 for a time after the start has just returned
C8_Witness ==
    /\ Returned("ensure_schedules")
    /\ last.n = 2
    /\ last.t > 0
    /\ Len(schedules) >= 3

\* earliest_time values the search is tried with on an engine just constructed
EarliestTimes == {-7, 0, 300, 900}

\* a leg returned for earliest_time: not before max(0, earliest_time), not
\* after the scan horizon, within the delta-v budget
LegWithinSearch(self, leg, earliest_time) ==
    /\ leg.t_depart >= Max(0, earliest_time)
    /\ leg.t_depart <= Max(0, earliest_time) + launch_scan_window_days
    /\ DvCost(self, leg.source, leg.target, leg.t_depart, leg.duration)
         <= lambert_max_total_dv

\* C9: every leg _find_next_lambert_leg returns departs at or after
\* max(0, earliest), at or before earliest + launch_scan_window_days, and
\* costs no more than lambert_max_total_dv: for the legs of every mission
\* scheduled (searched from t_start and from leg_out.t_arrive) and for the
\* searches of an engine just constructed.
C9_LegWithinSearch ==
    /\ \A k \in 1..Len(schedules) :
          /\ LegWithinSearch(Self, schedules[k].leg_outbound, schedules[k].t_start)
          /\ LegWithinSearch(Self, schedules[k].leg_inbound,
                             schedules[k].leg_outbound.t_arrive)
    /\ (last.op = "init") =>
          \A e \in EarliestTimes, d \in Dirs :
              \E r \in {FindNextLambertLeg(Self, d[1], d[2], e)} :
                  (r.leg # NoLeg) => LegWithinSearch(Self, r.leg, e)

\* a second mission whose legs were both found after a wait
C9_Witness ==
    /\ Len(schedules) >= 2
    /\ schedules[2].leg_outbound.t_depart > schedules[2].t_start
    /\ schedules[2].leg_inbound.t_depart > schedules[2].leg_outbound.t_arrive

\* C10: get_schedule_preview(3) returns three entries, missions 0, 1, 2, with
\* strictly increasing t_start, whatever was asked before; both leg durations
\* of every mission scheduled lie in [180, 450]; and the flight times the
\* next search will try are some and all in [180, 450].
C10_PreviewAndDurations ==
    /\ (Returned("get_schedule_preview") /\ last.n = 3) =>
          /\ Len(last.ret) = 3
          /\ \A i \in 1..3 : last.ret[i].mission_index = i - 1
          /\ \A i \in 1..2 : last.ret[i].t_start < last.ret[i + 1].t_start
    /\ \A k \in 1..Len(schedules) :
          /\ schedules[k].leg_outbound.duration \in 180..450
          /\ schedules[k].leg_inbound.duration \in 180..450
    /\ \A d \in Dirs :
          /\ DtCandidates(transfer_time_guess[d]) # {}
          /\ DtCandidates(transfer_time_guess[d]) \subseteq 180..450

\* the preview of three was asked of an engine that had scheduled four
C10_Witness ==
    /\ Returned("get_schedule_preview")
    /\ last.n = 3
    /\ Len(schedules) = 4
    /\ Len(last.ret) = 3

\* the legs of the missions scheduled
ScheduledLegs ==
    UNION {{schedules[k].leg_outbound, schedules[k].leg_inbound} : k \in 1..Len(schedules)}

\* the leg stays out of both exclusion spheres at every sample of the grid
\* with step clearance_check_dt_days, and passed _transfer_leg_clearance_ok
LegClear(self, leg) ==
    /\ MinClearance(self, leg.source, leg.target, leg.t_depart, leg.duration,
                    clearance_check_dt_days) >= 0
    /\ TransferLegClearanceOk(self, leg.source, leg.target, leg.t_depart, leg.duration)

\* C11: every leg stored in the schedule passed the clearance check: at every
\* sample of the grid with step clearance_check_dt_days over its flight its
\* distance to each planet is at least that planet's exclusion radius; and
\* every leg a search of an engine just constructed returns passed it too.
C11_ScheduledLegsClear ==
    /\ \A leg \in ScheduledLegs : LegClear(Self, leg)
    /\ (last.op = "init") =>
          \A e \in EarliestTimes, d \in Dirs :
              \E r \in {FindNextLambertLeg(Self, d[1], d[2], e)} :
                  (r.leg # NoLeg) => LegClear(Self, r.leg)

\* a leg was scheduled although a cheaper flight time from the same departure
\* epoch exists within the budget: that one fails the clearance check
C11_Witness ==
    \E leg \in ScheduledLegs :
        \E dt \in DtCandidates(InitialTimeGuess) :
            /\ ComputeLambertLeg(Self, leg.source, leg.target, leg.t_depart, dt,
                                 TRUE, FALSE) # NoLeg
            /\ DvCost(Self, leg.source, leg.target, leg.t_depart, dt)
                 < DvCost(Self, leg.source, leg.target, leg.t_depart, leg.duration)
            /\ ~TransferLegClearanceOk(Self, leg.source, leg.target, leg.t_depart, dt)

\* flight times _compute_lambert_leg is tried with: none, the ends of the
\* grid, and the values around the initial guess
LegDurations == {-5, 0, 180, 255, 259, 260, 265, 450}

\* the Lambert solve of the leg succeeded and its re-propagated departure
\* state ends within the tolerance of pos_arrive
LegReachesArrival(self, leg) ==
    /\ LambertSolved(self, leg.source, leg.target, leg.t_depart, leg.duration)
    /\ PropagationMiss(self, leg.source, leg.target, leg.t_depart, leg.duration)
         <= PropagationTol

\* C12: every leg that exists satisfies the re-propagation check: each leg of
\* the schedule ends within 1e-4 AU of its pos_arrive, and for every
\* departure time and flight time _compute_lambert_leg returns a leg exactly
\* when the flight time is positive, the Lambert solve succeeded and the
\* re-propagation ended within 1e-4 AU; the leg returned carries the
\* arguments it was computed for.
C12_LegsReachArrival ==
    /\ \A leg \in ScheduledLegs : LegReachesArrival(Self, leg)
    /\ \A t \in {0} \cup Timestamps, dt \in LegDurations, d \in Dirs :
          \E leg \in {ComputeLambertLeg(Self, d[1], d[2], t, dt, TRUE, FALSE)} :
              /\ (leg # NoLeg) <=>
                    /\ dt > 0
                    /\ LambertSolved(Self, d[1], d[2], t, dt)
                    /\ PropagationMiss(Self, d[1], d[2], t, dt) <= PropagationTol
              /\ (leg # NoLeg) =>
                    /\ LegReachesArrival(Self, leg)
                    /\ leg.t_depart = t /\ leg.duration = dt /\ leg.t_arrive = t + dt

\* a leg was scheduled although a cheaper flight time from the same departure
\* epoch has a Lambert solution: its re-propagation misses the arrival point
C12_Witness ==
    \E leg \in ScheduledLegs :
        \E dt \in DtCandidates(InitialTimeGuess) :
            /\ LambertSolved(Self, leg.source, leg.target, leg.t_depart, dt)
            /\ PropagationMiss(Self, leg.source, leg.target, leg.t_depart, dt)
                 > PropagationTol
            /\ DvCost(Self, leg.source, leg.target, leg.t_depart, dt)
                 < DvCost(Self, leg.source, leg.target, leg.t_depart, leg.duration)
            /\ ComputeLambertLeg(Self, leg.source, leg.target, leg.t_depart, dt,
                                 TRUE, FALSE) = NoLeg

\* the schedule holds whole missions only, and the end times mirror it
ScheduleWhole ==
    /\ Len(schedule_end_times) = Len(schedules)
    /\ \A k \in 1..Len(schedules) :
          /\ schedules[k].mission_index = k - 1
          /\ schedules[k].leg_outbound # NoLeg
          /\ schedules[k].leg_inbound # NoLeg
          /\ schedule_end_times[k] = schedules[k].leg_inbound.t_arrive

\* C13: if the search for the outbound or the inbound leg fails while mission
\* k is appended, _append_next_schedule raises and leaves the schedule and
\* the end times exactly as they were before it was called; after an engine
\* call that raised, the schedule holds whole missions only and both vectors
\* have the same length.
C13_FailedAppendKeepsSchedule ==
    /\ \E r \in {CallAppendNextSchedule(Self)} :
          r.raised => /\ r.eng.schedules = schedules
                      /\ r.eng.end_times = schedule_end_times
    /\ last.raised => ScheduleWhole

\* a call raised at the inbound search of the first mission: the outbound
\* search before it had succeeded and stored its flight time as the next guess
C13_Witness ==
    /\ last.raised
    /\ schedules = <<>>
    /\ transfer_time_guess[<<"earth", "mars">>] # InitialTimeGuess

----------------------------------------------------------------------------
(* The simulation server, backend/main.py *)

\* the engine's day for the server's time: on the engine's whole-day grid all
\* phase boundaries are whole days, so its answers depend on the whole part
Days(t) == t \div TenthsPerDay

\* the worlds the server runs on: those whose launch-window searches succeed
ServerWorlds == {WorldList[1]}

\* a JSON value found under "speed" or "time": value is in tenths of a day
\*   number : a JSON number            numeral : a string float() can parse
\*   word   : a string it cannot parse  null    : null
\*   nan    : the JSON token NaN        missing : the key is absent
Raw(kind, value) == [kind |-> kind, value |-> value]

\* a conversion that takes what it cannot parse as 0
FloatOf_Lenient(raw, default) ==
    CASE raw.kind = "missing" -> [ok |-> TRUE, nan |-> FALSE, value |-> default]
      [] raw.kind \in {"number", "numeral"} -> [ok |-> TRUE, nan |-> FALSE, value |-> raw.value]
      [] OTHER -> [ok |-> TRUE, nan |-> raw.kind = "nan", value |-> 0]

\* float(raw) on data.get(key, default): TypeError and ValueError give ok = FALSE
FloatOf(raw, default) ==
    CASE raw.kind = "missing" -> [ok |-> TRUE, nan |-> FALSE, value |-> default]
      [] raw.kind \in {"number", "numeral"} -> [ok |-> TRUE, nan |-> FALSE, value |-> raw.value]
      [] raw.kind = "nan" -> [ok |-> TRUE, nan |-> TRUE, value |-> 0]
      [] OTHER -> [ok |-> FALSE, nan |-> FALSE, value |-> 0]

\* the clamp with a floor of 0.1 days per tick
ClampNonNegative_Floor(x) == IF x.nan THEN InitialTimeSpeed ELSE Max(InitialTimeSpeed, x.value)

\* no clamp: the value as converted
ClampNonNegative_None(x) == IF x.nan THEN 0 ELSE x.value

\* max(0.0, x): a NaN never compares greater, so 0.0 is kept
ClampNonNegative(x) == IF x.nan THEN 0 ELSE Max(0, x.value)

\* sim_state as one value
SimState(running, is_paused, time, speed) ==
    [is_running |-> running, paused |-> is_paused, current_time |-> time, time_speed |-> speed]

Sim == SimState(is_running, paused, current_time, time_speed)

SetSimState(st) ==
    /\ is_running' = st.is_running
    /\ paused' = st.paused
    /\ current_time' = st.current_time
    /\ time_speed' = st.time_speed

\* the update reports sim_state as it was before the command
BuildSimulationUpdate_Stale(self, st, message_type) ==
    The({ IF r.raised THEN [raised |-> TRUE, eng |-> r.eng, message |-> <<>>]
          ELSE [raised |-> FALSE, eng |-> r.eng,
                message |-> [type |-> message_type,
                             seq |-> updates + 1,
                             info |-> r.info,
                             simulation |-> [time_speed |-> time_speed,
                                             paused |-> paused,
                                             is_running |-> is_running]]]
        : r \in {GetMissionInfo(self, Days(st.current_time))} })

\* build_simulation_update(message_type): get_mission_info(sim_state.current_time)
\* with the "simulation" dict and the type added; seq numbers the messages
\* in the order they are built
BuildSimulationUpdate(self, st, message_type) ==
    The({ IF r.raised THEN [raised |-> TRUE, eng |-> r.eng, message |-> <<>>]
          ELSE [raised |-> FALSE, eng |-> r.eng,
                message |-> [type |-> message_type,
                             seq |-> updates + 1,
                             info |-> r.info,
                             simulation |-> [time_speed |-> st.time_speed,
                                             paused |-> st.paused,
                                             is_running |-> st.is_running]]]
        : r \in {GetMissionInfo(self, Days(st.current_time))} })

\* the endpoint get_mission_info(): get_schedule_preview(3); its last entry
\* gives timeline_horizon_end, and only an empty preview asks get_mission_info(0)
ApiMissionInfo(self) ==
    The({ IF pv.raised THEN [raised |-> TRUE, eng |-> pv.eng]
          ELSE IF pv.preview # <<>> THEN [raised |-> FALSE, eng |-> pv.eng]
          ELSE The({ [raised |-> r.raised, eng |-> r.eng]
                   : r \in {GetMissionInfo(pv.eng, 0)} })
        : pv \in {GetSchedulePreview(self, 3)} })

\* initial_data of websocket_endpoint: of its parts get_mission_info() and
\* get_snapshot() enter the engine
InitialData(self, st) ==
    The({ IF mi.raised THEN mi
          ELSE The({ [raised |-> r.raised, eng |-> r.eng]
                   : r \in {GetMissionInfo(mi.eng, Days(st.current_time))} })
        : mi \in {ApiMissionInfo(self)} })

\* list.remove(x) where x is known to be in the list, or guarded by a test
Remove(list, x) ==
    IF \A i \in 1..Len(list) : list[i] # x THEN list
    ELSE LET k == CHOOSE i \in 1..Len(list) : list[i] = x /\ \A j \in 1..(i - 1) : list[j] # x
         IN  [i \in 1..(Len(list) - 1) |-> IF i < k THEN list[i] ELSE list[i + 1]]

\* the handler of connection c leaves websocket_endpoint, by return or by an
\* exception: the finally clause takes the connection off the list
Leaves(c, list) ==
    /\ handler' = [handler EXCEPT ![c].pc = "closed"]
    /\ active_connections' = Remove(list, c)

\* the newest task is the first to run
NextTask_Newest(ready) == Len(ready)

\* the sends of a broadcast go before a waiting send of initial_data
NextTask_BroadcastFirst(ready) ==
    IF \E k \in 1..Len(ready) : ready[k][2] # 0
    THEN CHOOSE k \in 1..Len(ready) :
            ready[k][2] # 0 /\ \A j \in 1..(k - 1) : ready[j][2] = 0
    ELSE 1

\* the send the event loop carries out next: sends are carried out in the
\* order they were started, the tasks of one gather in the order of their
\* creation
NextTask(ready) == 1

\* broadcast_to_clients(message) called by task o, up to the await of gather:
\* one _send_one task per connection of a copy of the list; with no
\* connection it returns at once
StartBroadcast(o, message) ==
    IF active_connections = <<>>
    THEN /\ broadcast' = [broadcast EXCEPT ![o] = NoBroadcast]
         /\ tasks' = tasks
    ELSE /\ broadcast' = [broadcast EXCEPT ![o] =
                [message |-> message, connections |-> active_connections,
                 results |-> [i \in 1..Len(active_connections) |-> "pending"]]]
         /\ tasks' = tasks \o [i \in 1..Len(active_connections) |-> <<o, i>>]

\* the connections whose client reads so slowly that a send to it may take
\* longer than the 0.5 s wait_for allows
SlowConnections == {2}

\* how a send on an open connection c can end
SendOutcomes(c) == IF c \in SlowConnections THEN {"sent", "late", "stuck"} ELSE {"sent"}

\* a send on connection c raises: the peer is gone or the socket is closed
SendFails(c) == c \in broken \/ handler[c].pc = "closed"
\* the engine's fields
engine == <<world, schedules, schedule_end_times, transfer_time_guess>>

NoArg == Raw("missing", 0)

\* the commands that assign sim_state and broadcast an update
BroadcastCommands == {"start", "pause", "stop", "set_speed", "set_time"}

\* the commands clients send; "warp" is not a command of the server
Commands == BroadcastCommands \cup {"get_snapshot", "warp"}

\* the values clients send under "speed" and under "time"; the late times
\* are the last tick of the first mission, at the initial speed, and the
\* instant the second mission starts
SpeedArgs == {Raw("number", -20), Raw("number", 0), Raw("numeral", 30),
              Raw("word", 0), Raw("null", 0)}
LastTickOfMission0 ==
    IF schedules = <<>> THEN 0
    ELSE TenthsPerDay * schedules[1].leg_inbound.t_arrive - InitialTimeSpeed
TimeArgs == {Raw("number", -50), Raw("number", 0), Raw("number", LastTickOfMission0),
             Raw("number", LastTickOfMission0 + InitialTimeSpeed),
             Raw("word", 0), Raw("nan", 0), Raw("missing", 0)}

\* the clients: the one of connection 1 operates the simulation and sends
\* every kind of text; the one of connection 2 watches, toggles the pause,
\* and may go away without closing
Operators == {1}
Flaky == {2}
Sends(c) == IF c \in Operators THEN Commands ELSE {"pause"}

ArgsOf(command) ==
    IF command = "set_speed" THEN SpeedArgs
    ELSE IF command = "set_time" THEN TimeArgs
    ELSE {NoArg}

\* the branches with a pause that sets paused instead of negating it
Commanded_PauseSets(command, raw) ==
    CASE command = "start" ->
           [ok |-> TRUE, st |-> SimState(TRUE, FALSE, current_time, time_speed)]
      [] command = "pause" ->
           [ok |-> TRUE, st |-> SimState(is_running, TRUE, current_time, time_speed)]
      [] command = "stop" ->
           [ok |-> TRUE, st |-> SimState(FALSE, FALSE, 0, time_speed)]
      [] command = "set_speed" ->
           LET speed == FloatOf(raw, 10)
           IN  [ok |-> speed.ok,
                st |-> SimState(is_running, paused, current_time,
                                IF speed.ok THEN ClampNonNegative(speed) ELSE time_speed)]
      [] command = "set_time" ->
           LET t == FloatOf(raw, 0)
           IN  [ok |-> t.ok,
                st |-> SimState(is_running, paused,
                                IF t.ok THEN ClampNonNegative(t) ELSE current_time,
                                time_speed)]

\* the branch of the if/elif chain for a state-changing command: whether the
\* argument converted, and sim_state after the assignments
Commanded(command, raw) ==
    CASE command = "start" ->
           [ok |-> TRUE, st |-> SimState(TRUE, FALSE, current_time, time_speed)]
      [] command = "pause" ->
           [ok |-> TRUE, st |-> SimState(is_running, ~paused, current_time, time_speed)]
      [] command = "stop" ->
           [ok |-> TRUE, st |-> SimState(FALSE, FALSE, 0, time_speed)]
      [] command = "set_speed" ->
           LET speed == FloatOf(raw, 10)
           IN  [ok |-> speed.ok,
                st |-> SimState(is_running, paused, current_time,
                                IF speed.ok THEN ClampNonNegative(speed) ELSE time_speed)]
      [] command = "set_time" ->
           LET t == FloatOf(raw, 0)
           IN  [ok |-> t.ok,
                st |-> SimState(is_running, paused,
                                IF t.ok THEN ClampNonNegative(t) ELSE current_time,
                                time_speed)]

\* the tick also runs while the simulation is stopped
Advances_NotPaused(st) == ~st.paused

\* the tick also runs while the simulation is paused
Advances_WhilePaused(st) == st.is_running

\* the test of simulation_loop: if sim_state.is_running and not sim_state.paused
Advances(st) == st.is_running /\ ~st.paused

\* the loop with every exception of a pass caught and the next pass taken
AfterTickError_Resume == "sleep"

\* where an exception raised in the while loop leaves the task: only
\* asyncio.CancelledError is caught, anything else ends the coroutine
AfterTickError == "ended"

\* one pass of the while loop of simulation_loop, from the end of its sleep to
\* its next suspension
simulation_loop ==
    /\ loop = "sleep"
    /\ IF Advances(Sim)
       THEN /\ updates < MaxUpdates
            /\ WithinBound(Days(current_time + time_speed), 2)
            /\ \E st \in {SimState(is_running, paused, current_time + time_speed, time_speed)} :
               \E b \in {BuildSimulationUpdate(Self, st, "update")} :
                 /\ SetSimState(st)
                 /\ Becomes(b.eng)
                 /\ IF b.raised
                    THEN /\ loop' = AfterTickError
                         /\ UNCHANGED <<updates, broadcast, tasks>>
                    ELSE /\ updates' = updates + 1
                         /\ StartBroadcast(0, b.message)
                         /\ loop' = IF active_connections = <<>> THEN "sleep" ELSE "broadcast"
            /\ UNCHANGED <<last, search, active_connections, handler, wire, broken>>
       ELSE UNCHANGED <<engine, last, search, server>>

\* websocket_endpoint from the return of accept to the send of initial_data:
\* the connection is put on the list, initial_data is built, and its send
\* joins the sends that wait for the event loop
ws_accept(c) ==
    /\ handler[c].pc = "idle"
    /\ WithinBound(Days(current_time), 2)
    /\ \E r \in {InitialData(Self, Sim)} :
         /\ Becomes(r.eng)
         /\ IF r.raised
            THEN /\ Leaves(c, Append(active_connections, c))
                 /\ tasks' = tasks
            ELSE /\ active_connections' = Append(active_connections, c)
                 /\ handler' = [handler EXCEPT ![c].pc = "init"]
                 /\ tasks' = Append(tasks, <<c, 0>>)
    /\ UNCHANGED <<last, search, is_running, paused, current_time, time_speed, loop, broadcast,
                   wire, updates, broken>>

\* the send of initial_data is carried out: the frame is written and the
\* handler goes on to receive_json, or the send raises and the handler returns
send_initial ==
    /\ tasks # <<>>
    /\ \E k \in {NextTask(tasks)} :
       \E c \in {tasks[k][1]} :
         /\ tasks[k][2] = 0
         /\ tasks' = [j \in 1..(Len(tasks) - 1) |-> IF j < k THEN tasks[j] ELSE tasks[j + 1]]
         /\ IF SendFails(c)
            THEN /\ Leaves(c, active_connections)
                 /\ wire' = wire
            ELSE /\ handler' = [handler EXCEPT ![c].pc = "receive"]
                 /\ active_connections' = active_connections
                 /\ wire' = [wire EXCEPT ![c] = Append(@, 0)]
    /\ UNCHANGED <<engine, last, search, is_running, paused, current_time, time_speed,
                   loop, broadcast, updates, broken>>

\* receive_json returned an object: the if/elif chain on its "command", up
\* to the next suspension of the handler
ws_command(c, command, raw) ==
    /\ handler[c].pc = "receive"
    /\ command \in Sends(c)
    /\ c \notin broken
    /\ IF command \in BroadcastCommands
       THEN \E cmd \in {Commanded(command, raw)} :
              IF cmd.ok
              THEN /\ updates < MaxUpdates
                   /\ WithinBound(Days(cmd.st.current_time), 2)
                   /\ SetSimState(cmd.st)
                   /\ \E b \in {BuildSimulationUpdate(Self, cmd.st, "update")} :
                        /\ Becomes(b.eng)
                        /\ IF b.raised
                           THEN /\ Leaves(c, active_connections)
                                /\ UNCHANGED <<updates, broadcast, tasks>>
                           ELSE /\ updates' = updates + 1
                                /\ StartBroadcast(c, b.message)
                                /\ handler' = [handler EXCEPT ![c] =
                                      [pc |-> IF active_connections = <<>> THEN "ack"
                                              ELSE "broadcast",
                                       command |-> command, sent |-> <<>>]]
                                /\ active_connections' = active_connections
              ELSE /\ handler' = [handler EXCEPT ![c] =
                         [pc |-> "receive", command |-> "", sent |-> <<"error">>]]
                   /\ UNCHANGED <<engine, last, search, is_running, paused, current_time, time_speed,
                                  active_connections, updates, broadcast, tasks>>
       ELSE IF command = "get_snapshot"
       THEN /\ WithinBound(Days(current_time), 2)
            /\ \E r \in {GetMissionInfo(Self, Days(current_time))} :
                 /\ Becomes(r.eng)
                 /\ IF r.raised
                    THEN Leaves(c, active_connections)
                    ELSE /\ handler' = [handler EXCEPT ![c] =
                               [pc |-> "ack", command |-> command,
                                sent |-> <<"snapshot">>]]
                         /\ active_connections' = active_connections
            /\ UNCHANGED <<is_running, paused, current_time, time_speed, updates,
                           broadcast, tasks>>
       ELSE /\ handler' = [handler EXCEPT ![c] =
                  [pc |-> "receive", command |-> "", sent |-> <<"error">>]]
            /\ UNCHANGED <<engine, last, search, is_running, paused, current_time, time_speed,
                           active_connections, updates, broadcast, tasks>>
    /\ UNCHANGED <<last, search, loop, wire, broken>>

\* receive_json raised on a text that is not JSON: one error, command None
ws_invalid_json(c) ==
    /\ handler[c].pc = "receive"
    /\ c \in Operators
    /\ c \notin broken
    /\ handler' = [handler EXCEPT ![c] =
          [pc |-> "receive", command |-> "", sent |-> <<"error">>]]
    /\ UNCHANGED <<engine, last, search, is_running, paused, current_time, time_speed, active_connections,
                   loop, broadcast, tasks, wire, updates, broken>>

\* receive_json returned a JSON value that is no object: data.get raises
\* AttributeError, which nothing catches
ws_not_an_object(c) ==
    /\ handler[c].pc = "receive"
    /\ c \in Operators
    /\ c \notin broken
    /\ Leaves(c, active_connections)
    /\ UNCHANGED <<engine, last, search, is_running, paused, current_time, time_speed,
                   loop, broadcast, tasks, wire, updates, broken>>

\* if handled and ok: send the ack
ws_ack(c) ==
    /\ handler[c].pc = "ack"
    /\ IF SendFails(c)
       THEN Leaves(c, active_connections)
       ELSE /\ handler' = [handler EXCEPT ![c] =
                  [pc |-> "receive", command |-> "", sent |-> Append(@.sent, "ack")]]
            /\ active_connections' = active_connections
    /\ UNCHANGED <<engine, last, search, is_running, paused, current_time, time_speed,
                   loop, broadcast, tasks, wire, updates, broken>>

\* receive_json raised WebSocketDisconnect
ws_disconnect(c) ==
    /\ handler[c].pc = "receive"
    /\ c \in broken
    /\ Leaves(c, active_connections)
    /\ UNCHANGED <<engine, last, search, is_running, paused, current_time, time_speed,
                   loop, broadcast, tasks, wire, updates, broken>>

\* the client of connection c goes away
peer_gone(c) ==
    /\ handler[c].pc \in {"init", "receive", "broadcast", "ack"}
    /\ c \in Flaky
    /\ c \notin broken
    /\ broken' = broken \cup {c}
    /\ UNCHANGED <<engine, last, search, is_running, paused, current_time, time_speed, active_connections,
                   handler, loop, broadcast, tasks, wire, updates>>

\* the event loop runs one _send_one task: send_json writes the frame, unless
\* the connection is gone; on a slow connection wait_for may time out, after
\* the frame was written (late) or before (stuck), and _send_one then
\* returns the connection as dead
send_one ==
    /\ tasks # <<>>
    /\ \E k \in {NextTask(tasks)} :
       \E o \in {tasks[k][1]}, i \in {tasks[k][2]} :
       \E connection \in {IF i = 0 THEN o ELSE broadcast[o].connections[i]} :
         /\ i # 0
         /\ tasks' = [j \in 1..(Len(tasks) - 1) |-> IF j < k THEN tasks[j] ELSE tasks[j + 1]]
         /\ IF SendFails(connection)
            THEN /\ wire' = wire
                 /\ broadcast' = [broadcast EXCEPT ![o].results[i] = "dead"]
            ELSE \E outcome \in SendOutcomes(connection) :
                 /\ wire' = IF outcome = "stuck" THEN wire
                            ELSE [wire EXCEPT ![connection] =
                                     Append(@, broadcast[o].message.seq)]
                 /\ broadcast' = [broadcast EXCEPT ![o].results[i] =
                                     IF outcome = "sent" THEN "none" ELSE "dead"]
    /\ UNCHANGED <<engine, last, search, is_running, paused, current_time, time_speed, active_connections,
                   handler, loop, updates, broken>>

\* the connections _send_one returned instead of None
Dead(b) == {b.connections[i] : i \in {j \in 1..Len(b.results) : b.results[j] = "dead"}}

\* one dead connection empties the list
RemoveDead_All(list, dead) == IF dead = {} THEN list ELSE <<>>

\* for dead in results: active_connections.remove(dead), ValueError ignored
RemoveDead(list, dead) ==
    LET Alive(c) == c \notin dead
    IN  SelectSeq(list, Alive)

\* gather returned in task o: the dead connections are taken off the list
\* and the task goes on
gather_returns(o) ==
    /\ broadcast[o] # NoBroadcast
    /\ \A i \in 1..Len(broadcast[o].results) : broadcast[o].results[i] # "pending"
    /\ active_connections' = RemoveDead(active_connections, Dead(broadcast[o]))
    /\ broadcast' = [broadcast EXCEPT ![o] = NoBroadcast]
    /\ IF o = 0
       THEN loop' = "sleep" /\ handler' = handler
       ELSE loop' = loop /\ handler' = [handler EXCEPT ![o].pc = "ack"]
    /\ UNCHANGED <<engine, last, search, is_running, paused, current_time, time_speed,
                   tasks, wire, updates, broken>>

\* GET /api/state
api_state ==
    UNCHANGED <<engine, last, search, server>>

\* GET /api/snapshot
api_snapshot ==
    /\ WithinBound(Days(current_time), 2)
    /\ \E r \in {GetMissionInfo(Self, Days(current_time))} :
         /\ Becomes(r.eng)
    /\ UNCHANGED <<last, search, server>>

\* GET /api/mission/info
api_mission_info ==
    /\ WithinBound(0, 2)
    /\ \E r \in {ApiMissionInfo(Self)} :
         /\ Becomes(r.eng)
    /\ UNCHANGED <<last, search, server>>

ServerInit == Init /\ world \in ServerWorlds

ServerNext ==
    \/ simulation_loop
    \/ \E c \in Connections : ws_accept(c)
    \/ \E c \in Connections, command \in Commands :
          \E raw \in ArgsOf(command) : ws_command(c, command, raw)
    \/ \E c \in Connections : ws_invalid_json(c)
    \/ \E c \in Connections : ws_not_an_object(c)
    \/ \E c \in Connections : ws_ack(c)
    \/ \E c \in Connections : ws_disconnect(c)
    \/ \E c \in Connections : peer_gone(c)
    \/ send_initial
    \/ send_one
    \/ \E o \in Tasks : gather_returns(o)
    \/ api_state
    \/ api_snapshot
    \/ api_mission_info

ServerSpec == ServerInit /\ [][ServerNext]_vars

\* the server on a world whose fourth mission finds no launch window: the
\* engine raises when the schedule has to grow past the third
FailingWorlds == {WorldList[11]}
FailingInit == Init /\ world \in FailingWorlds
FailingSpec == FailingInit /\ [][ServerNext]_vars

----------------------------------------------------------------------------
(* The claims about the server *)

\* a requested time clamped at 0; a request without "time" asks for 0
ClampedAtZero(raw) ==
    IF raw.kind \in {"nan", "missing"} \/ raw.value < 0 THEN 0 ELSE raw.value

\* C14: the simulation time changes only in a tick, which adds time_speed and
\* happens only while the simulation runs and is not paused, in a set_time
\* whose argument is a number, which sets it to that number clamped at 0, or
\* in a stop, which sets it to 0
C14_TimeChangesOnlyBy ==
    [][ current_time' # current_time =>
          \/ /\ simulation_loop
             /\ is_running /\ ~paused
             /\ current_time' = current_time + time_speed
          \/ \E c \in Connections, raw \in TimeArgs :
                /\ ws_command(c, "set_time", raw)
                /\ raw.kind \in {"number", "numeral", "nan", "missing"}
                /\ current_time' = ClampedAtZero(raw)
          \/ \E c \in Connections :
                /\ ws_command(c, "stop", NoArg)
                /\ current_time' = 0 ]_vars

\* the time was set to the last tick of the first mission and a tick has
\* then advanced it
C14_Witness ==
    /\ is_running /\ ~paused /\ time_speed > 0
    /\ current_time = LastTickOfMission0 + time_speed

\* the replies a handler has sent for the command it handles, by where it stands
RepliesInOrder(h) ==
    CASE h.pc = "idle" -> h.sent = <<>>
      [] h.pc = "broadcast" -> h.command \in BroadcastCommands /\ h.sent = <<>>
      [] h.pc = "ack" -> \/ h.command \in BroadcastCommands /\ h.sent = <<>>
                         \/ h.command = "get_snapshot" /\ h.sent = <<"snapshot">>
      [] h.pc = "receive" -> h.sent \in {<<>>, <<"error">>, <<"ack">>, <<"snapshot", "ack">>}
      [] OTHER -> TRUE

\* the handler of connection c takes up a command of the set cs in this step
TakesUp(c, cs) ==
    /\ handler[c].pc = "receive"
    /\ handler'[c].pc \in {"broadcast", "ack"}
    /\ handler'[c].command \in cs

\* the update sent on behalf of connection c in this step is the one built
\* from the state as the step leaves it, addressed to every connection of
\* the list
BroadcastsChangedState(c) ==
    /\ updates' = updates + 1
    /\ IF active_connections = <<>>
       THEN broadcast'[c] = NoBroadcast /\ tasks' = tasks
       ELSE /\ broadcast'[c].connections = active_connections
            /\ \A i \in 1..Len(active_connections) :
                  /\ broadcast'[c].results[i] = "pending"
                  /\ \E k \in 1..Len(tasks') : tasks'[k] = <<c, i>>
            /\ Len(tasks') = Len(tasks) + Len(active_connections)
            /\ broadcast'[c].message.type = "update"
            /\ broadcast'[c].message.seq = updates'
            /\ broadcast'[c].message.simulation =
                  [time_speed |-> time_speed', paused |-> paused', is_running |-> is_running']
            /\ \E r \in {GetMissionInfo(Self, Days(current_time'))} :
                  broadcast'[c].message.info = r.info

\* every connection the update of task o was addressed to has it on its
\* wire, or its send failed and it is off the list
EveryoneServed(o) ==
    \A i \in 1..Len(broadcast[o].connections) :
       \E x \in {broadcast[o].connections[i]} :
          \/ \E k \in 1..Len(wire[x]) : wire[x][k] = broadcast[o].message.seq
          \/ /\ broadcast[o].results[i] = "dead"
             /\ \A k \in 1..Len(active_connections') : active_connections'[k] # x

\* C15: a successful start, pause, stop, set_speed or set_time first
\* broadcasts one update, built from the state the command has already
\* changed, to every active subscriber, and only when every send has ended
\* sends one ack to the issuer; get_snapshot sends one snapshot and then one
\* ack to the issuer and broadcasts nothing; a command that fails gets one
\* error and no ack
C15_CommandReplies ==
    /\ [](\A c \in Connections : RepliesInOrder(handler[c]))
    /\ [][ \A c \in Connections :
             /\ TakesUp(c, BroadcastCommands) =>
                  /\ handler'[c].sent = <<>>
                  /\ BroadcastsChangedState(c)
                  /\ (handler'[c].pc = "ack") = (active_connections = <<>>)
             /\ (handler[c].pc = "broadcast" /\ handler'[c].pc # "broadcast") =>
                  /\ handler'[c].pc = "ack"
                  /\ handler'[c].sent = <<>>
                  /\ updates' = updates
                  /\ EveryoneServed(c)
             /\ TakesUp(c, {"get_snapshot"}) =>
                  /\ handler'[c].pc = "ack"
                  /\ handler'[c].sent = <<"snapshot">>
                  /\ updates' = updates /\ broadcast' = broadcast /\ tasks' = tasks
             /\ (handler[c].pc = "ack" /\ handler'[c].pc # "ack") =>
                  \/ /\ c \notin broken
                     /\ handler'[c].pc = "receive"
                     /\ handler'[c].sent = Append(handler[c].sent, "ack")
                     /\ updates' = updates /\ broadcast' = broadcast /\ tasks' = tasks
                  \/ c \in broken /\ handler'[c].pc = "closed"
             /\ (handler[c].pc = "receive" /\ handler'[c].pc = "receive"
                    /\ handler'[c].sent # handler[c].sent) =>
                  /\ handler'[c].sent = <<"error">>
                  /\ updates' = updates /\ broadcast' = broadcast /\ tasks' = tasks ]_vars

\* the operator's command was acknowledged after its update, the last one
\* built, reached both connections
C15_Witness ==
    /\ handler[1].pc = "receive" /\ handler[1].sent = <<"ack">>
    /\ updates >= 2
    /\ \A c \in Connections : wire[c] # <<>> /\ wire[c][Len(wire[c])] = updates
    /\ is_running /\ current_time > 0

\* the arguments float() rejects
NotNumeric(raw) == raw.kind \in {"word", "null"}

\* the handler of connection c answers with one error and nothing else happens
OnlyAnError(c) ==
    /\ handler'[c] = [pc |-> "receive", command |-> "", sent |-> <<"error">>]
    /\ \A d \in Connections \ {c} : handler'[d] = handler[d]
    /\ UNCHANGED <<is_running, paused, current_time, time_speed>>
    /\ UNCHANGED <<schedules, schedule_end_times>>
    /\ UNCHANGED <<updates, broadcast, tasks, wire, active_connections, loop>>

AtZero(op) ==
    CASE op = "get_mission_phase" ->
           The({ [phase |-> r.phase, mission_number |-> r.mission_number,
                  time_in_mission |-> r.time_in_mission]
               : r \in {GetMissionPhase(Self, 0)} })
      [] op = "get_spacecraft_position" ->
           The({ r.pos : r \in {GetSpacecraftPosition(Self, 0)} })
      [] op = "get_mission_info" ->
           The({ r.info : r \in {GetMissionInfo(Self, 0)} })
      [] op = "get_schedule_for_time" ->
           The({ [idx |-> r.idx, clamped |-> r.clamped]
               : r \in {GetScheduleForTime(Self, 0)} })

\* C17: negative times are clamped to 0 before use: get_mission_info,
\* get_mission_phase, get_spacecraft_position and the schedule lookup return
\* for a negative t exactly what they return for t = 0
C17_NegativeTimeAsZero ==
    \A op \in {"get_mission_phase", "get_spacecraft_position", "get_mission_info",
               "get_schedule_for_time"} :
       (Returned(op) /\ last.t < 0) => last.ret = AtZero(op)

\* get_mission_phase(-7) reported the Earth stay, seven days before the
\* mission's start, of a mission that is on its way to Mars at t = 0
C17_Witness ==
    /\ Returned("get_mission_phase") /\ last.t = -7
    /\ last.ret.phase = EARTH_ORBIT_STAY
    /\ last.ret.time_in_mission = -7
    /\ AtZero("get_mission_phase").phase = TRANSFER_TO_MARS
    /\ AtZero("get_mission_phase").time_in_mission = 0

\* C18: the simulation starts stopped, not paused, at time 0, and in every
\* state reached by ticks and commands, set_speed and set_time with negative
\* arguments among them, current_time >= 0 and time_speed >= 0
C18_StartsStoppedStaysNonNegative ==
    /\ (~is_running /\ ~paused /\ current_time = 0)
    /\ [](current_time >= 0 /\ time_speed >= 0)

\* three commands were served, a running simulation stands at time 0 with
\* speed 0: start, set_speed(-20) and set_time(-50) lead here
C18_Witness ==
    /\ is_running /\ ~paused /\ current_time = 0 /\ time_speed = 0
    /\ updates = MaxUpdates
    /\ handler[1].pc = "receive" /\ handler[1].sent = <<"ack">>
    /\ Len(wire[1]) = MaxUpdates + 1

\* a command of the set cs is taken up by some handler in this step
SomeCommand(cs) ==
    \E c \in Connections, command \in cs :
       \E raw \in ArgsOf(command) : ws_command(c, command, raw)

\* C19: set_speed changes only time_speed, and set_speed(0) sets it to 0; on
\* a running, unpaused simulation with speed 0 every tick still broadcasts
\* but leaves current_time where it is, and current_time, time_speed,
\* is_running and paused change only by a later command (set_speed,
\* set_time, stop, pause)
C19_SpeedZeroFreezes ==
    [][ /\ \A c \in Connections, raw \in SpeedArgs :
             ws_command(c, "set_speed", raw) =>
                /\ UNCHANGED <<is_running, paused, current_time>>
                /\ (raw.kind \in {"number", "numeral"} /\ raw.value = 0) => time_speed' = 0
        /\ (is_running /\ ~paused /\ time_speed = 0) =>
             /\ (simulation_loop /\ loop = "sleep") =>
                   /\ UNCHANGED <<is_running, paused, current_time, time_speed>>
                   /\ updates' = updates + 1
             /\ ~UNCHANGED <<is_running, paused, current_time, time_speed>> =>
                   SomeCommand({"set_speed", "set_time", "stop", "pause"}) ]_vars

\* the simulation runs with speed 0 and the loop has ticked: its update,
\* the last one built, reports the frozen state
C19_Witness ==
    /\ is_running /\ ~paused /\ time_speed = 0
    /\ loop = "broadcast"
    /\ broadcast[0].message.seq = updates
    /\ broadcast[0].message.simulation =
          [time_speed |-> 0, paused |-> FALSE, is_running |-> TRUE]

OnList(list, x) == \E k \in 1..Len(list) : list[k] = x

\* C21: a send that fails, or that takes longer than the timeout, marks its
\* connection dead and touches nothing else; when the broadcast ends exactly
\* the connections marked dead are taken off the list, every other one
\* stays on it in its place and has the message on its wire, and
\* is_running, paused, current_time, time_speed and the schedule are as
\* they were
C21_SendFailureRemovesOnlyThatSubscriber ==
    [][ /\ (tasks # <<>> /\ Len(tasks') < Len(tasks) /\ tasks[1][2] # 0) =>
             \E o \in {tasks[1][1]}, i \in {tasks[1][2]} :
             \E x \in {broadcast[o].connections[i]} :
                /\ (x \in broken \/ handler[x].pc = "closed") =>
                      broadcast'[o].results[i] = "dead" /\ wire' = wire
                /\ broadcast'[o].results[i] \in {"none", "dead"}
                /\ broadcast'[o].results[i] = "none" =>
                      wire'[x] = Append(wire[x], broadcast[o].message.seq)
                /\ \A j \in 1..Len(broadcast[o].results) :
                      j # i => broadcast'[o].results[j] = broadcast[o].results[j]
                /\ \A p \in Tasks \ {o} : broadcast'[p] = broadcast[p]
                /\ \A y \in Connections \ {x} : wire'[y] = wire[y]
                /\ UNCHANGED <<is_running, paused, current_time, time_speed,
                               schedules, schedule_end_times, active_connections>>
        /\ \A o \in Tasks :
             (broadcast[o] # NoBroadcast /\ broadcast'[o] = NoBroadcast) =>
                /\ \A x \in Connections :
                      OnList(active_connections', x) =
                         (OnList(active_connections, x) /\ x \notin Dead(broadcast[o]))
                /\ \A k, l \in 1..Len(active_connections') :
                      k < l => \E m, n \in 1..Len(active_connections) :
                                  /\ m < n
                                  /\ active_connections[m] = active_connections'[k]
                                  /\ active_connections[n] = active_connections'[l]
                /\ \A i \in 1..Len(broadcast[o].connections) :
                      broadcast[o].results[i] = "none" =>
                         OnList(wire[broadcast[o].connections[i]], broadcast[o].message.seq)
                /\ UNCHANGED <<is_running, paused, current_time, time_speed,
                               schedules, schedule_end_times, wire>> ]_vars

\* connection 2 is open but off the list, taken off because a send to it
\* failed, while connection 1 is still subscribed and has the last update
C21_Witness ==
    /\ active_connections = <<1>>
    /\ handler[2].pc \in {"receive", "broadcast", "ack"}
    /\ updates >= 1
    /\ OnList(wire[1], updates)
    /\ ~OnList(wire[2], updates)
    /\ \A o \in Tasks : broadcast[o] = NoBroadcast

C23_SetTimeZeroIsMissionStart ==
    [][ \A c \in Connections :
          ws_command(c, "set_time", Raw("number", 0)) =>
             /\ current_time' = 0
             /\ UNCHANGED <<is_running, paused>>
             /\ \E r \in {GetMissionInfo(Engine(world', schedules', schedule_end_times',
                                                transfer_time_guess'), 0)} :
                  /\ ~r.raised
                  /\ r.info.mission_number = 0
                  /\ r.info.time_in_mission = 0
                  /\ r.info.progress = 0
                  /\ r.info.phase \in {EARTH_ORBIT_STAY, TRANSFER_TO_MARS}
                  /\ broadcast'[c] # NoBroadcast =>
                        /\ broadcast'[c].message.info.mission_number = 0
                        /\ broadcast'[c].message.info.time_in_mission = 0
                        /\ broadcast'[c].message.info.progress = 0
                        /\ broadcast'[c].message.info.phase = r.info.phase ]_vars

\* a running simulation was set back to 0 after the schedule had grown to
\* four missions, and the update in flight reports the start of mission 0
C23_Witness ==
    /\ handler[1].pc = "broadcast" /\ handler[1].command = "set_time"
    /\ current_time = 0 /\ is_running
    /\ Len(schedules) > 3
    /\ broadcast[1].message.info.mission_number = 0
    /\ broadcast[1].message.info.time_in_mission = 0

----------------------------------------------------------------------------
(* The claims about the launch-window search and the schedule's vectors *)

\* the departure epochs of the window the search found leg in: the windows
\* are centred on the phase root plus whole synodic periods, and leg departs
\* inside exactly one of them
ScannedEpochs(self, source, target, earliest_time, leg) ==
    LET earliest == Max(0, earliest_time)
        t_end == earliest + launch_scan_window_days
        max_windows == CeilDiv(t_end - earliest, Max(1, Synodic(source, target))) + 2
        Start(center) == Max(earliest, center - lambert_depart_window_days)
        End(center) == Min(t_end, center + lambert_depart_window_days)
    IN  The({ {Start(center) + k * DepartStep
                 : k \in 0..((End(center) - Start(center)) \div DepartStep)}
            : center \in {The({ CHOOSE c \in {first + n * Synodic(source, target)
                                               : n \in 0..(max_windows - 1)} :
                                    Start(c) <= leg.t_depart /\ leg.t_depart <= End(c)
                              : first \in {The({ IF root.found THEN root.t ELSE earliest
                                               : root \in {FindNextPhaseRoot(
                                                     self, source, target,
                                                     self.guess[<<source, target>>],
                                                     earliest, t_end)} })} })} })

\* the pairs (departure epoch, flight time) of the window of leg that are
\* cheaper than leg although their leg exists, is within the budget and
\* passes clearance
CheaperPairs(self, source, target, earliest_time, leg) ==
    {<<t_depart, dt>> \in
         ScannedEpochs(self, source, target, earliest_time, leg)
           \X DtCandidates(self.guess[<<source, target>>]) :
       /\ DvCost(self, source, target, t_depart, dt)
            < DvCost(self, source, target, leg.t_depart, leg.duration)
       /\ Candidate(self, source, target, t_depart, dt) # NoLeg}

\* C24: the leg the launch-window search returns is the cheapest of its
\* window: no pair (departure epoch, flight time) of the scanned window
\* [root - 80, root + 80] x dt_candidates whose leg exists, is within the
\* delta-v budget and passes clearance has a strictly smaller dv1 + dv2.
\* Stated for the searches of an engine just constructed, in both directions.
C24_MinimumCostOverall ==
    (last.op = "init") =>
        \A e \in EarliestTimes, d \in Dirs :
            \E r \in {FindNextLambertLeg(Self, d[1], d[2], e)} :
                (r.leg # NoLeg) => CheaperPairs(Self, d[1], d[2], e, r.leg) = {}

\* the search returned the best leg of the first departure epoch that has
\* one, and a later epoch of the same window has a cheaper one
C24_Witness ==
    /\ last.op = "init"
    /\ \E r \in {FindNextLambertLeg(Self, "earth", "mars", 0)} :
          /\ r.leg # NoLeg
          /\ r.leg = BestLegAt(Self, "earth", "mars", r.leg.t_depart,
                               DtCandidates(InitialTimeGuess), InitialTimeGuess)
          /\ \E p \in CheaperPairs(Self, "earth", "mars", 0, r.leg) :
                p[1] > r.leg.t_depart

----------------------------------------------------------------------------
(* _find_next_lambert_leg statement by statement *)

\* the replacement without the test: the configured step used as it is
Sane_Raw(step, default) == step

\* `if step <= 0.0: step = default`
Sane(step, default) == IF step <= 0 THEN default ELSE step

\* the steps an engine is configured with: those of __init__, zeros, and
\* negative ones
StepConfigs ==
    {[dt_step |-> lambert_dt_step_days, depart_step |-> lambert_depart_step_days,
      coarse_step |-> lambert_phase_scan_step_days],
     [dt_step |-> 0, depart_step |-> 0, coarse_step |-> 0],
     [dt_step |-> -5, depart_step |-> -2, coarse_step |-> -10]}

\* the worlds the search is followed in: one where the first window has a
\* leg, one where the Lambert solve fails in the first window, one where no
\* outbound leg is within the budget
SearchWorlds == {WorldList[1], WorldList[4], WorldList[9]}

\* the locals of _find_next_lambert_leg(source, target, earliest_time) when
\* it reaches the loop that builds dt_candidates
SearchCall(self, source, target, earliest_time, cfg) ==
    [pc |-> "candidates", cfg |-> cfg, source |-> source, target |-> target,
     earliest |-> Max(0, earliest_time),
     t_end |-> Max(0, earliest_time) + launch_scan_window_days,
     dt_guess |-> self.guess[<<source, target>>],
     dt_step |-> Sane(cfg.dt_step, 5),
     depart_step |-> Sane(cfg.depart_step, 2),
     coarse_step |-> Sane(cfg.coarse_step, 10),
     dt_start |-> Max(DtMin, self.guess[<<source, target>>] - DtWindow),
     dt_end |-> Min(DtMax, self.guess[<<source, target>>] + DtWindow),
     k |-> 0, dt_candidates |-> {},
     t |-> 0, prev |-> <<>>,
     center |-> 0, window |-> 0, max_windows |-> 0,
     scan_end |-> 0, t_depart |-> 0, leg |-> NoLeg]

\* center = find_next_phase_root(earliest), or earliest; max_windows
ToWindows(center) ==
    [search EXCEPT !.pc = "window", !.center = center, !.window = 0,
                   !.max_windows = CeilDiv(search.t_end - search.earliest,
                                           Max(1, Synodic(search.source, search.target))) + 2]

\* one pass of `while True` that fills dt_candidates; after the break the
\* fallback candidate and the sort
candidates_step ==
    /\ search.pc = "candidates"
    /\ \E dt \in {search.dt_start + search.k * search.dt_step} :
          search' = IF dt > search.dt_end
                    THEN [search EXCEPT !.pc = "phase_scan", !.t = search.earliest,
                                        !.dt_candidates =
                                            IF @ # {} THEN @
                                            ELSE {Max(DtMin, Min(DtMax, search.dt_guess))}]
                    ELSE [search EXCEPT !.dt_candidates = @ \cup {dt}, !.k = @ + 1]
    /\ UNCHANGED <<engine, last, server>>

\* one pass of the coarse scan of find_next_phase_root; the bisection is a
\* loop over range(60)
phase_scan_step ==
    /\ search.pc = "phase_scan"
    /\ search' =
         IF search.t > search.t_end THEN ToWindows(search.earliest)
         ELSE The({ IF search.prev # <<>> /\ search.prev[2] = 0
                    THEN ToWindows(search.prev[1])
                    ELSE IF /\ search.prev # <<>>
                            /\ search.prev[2] * err < 0
                            /\ Abs(err - search.prev[2]) < 180
                    THEN ToWindows(BisectPhaseRoot(Self, search.source, search.target,
                                                   search.dt_guess, search.prev[1],
                                                   search.t, search.prev[2], 0))
                    ELSE [search EXCEPT !.prev = <<search.t, err>>,
                                        !.t = @ + search.coarse_step]
                  : err \in {PhaseError(Self, search.source, search.target,
                                        search.dt_guess, search.t)} })
    /\ UNCHANGED <<engine, last, server>>

\* `for _ in range(max_windows)`: the next window, or the RuntimeError after
\* the last
window_begin ==
    /\ search.pc = "window"
    /\ search' =
         IF search.window >= search.max_windows THEN [search EXCEPT !.pc = "raised"]
         ELSE [search EXCEPT !.pc = "depart", !.window = @ + 1,
                             !.t_depart = Max(search.earliest,
                                              search.center - lambert_depart_window_days),
                             !.scan_end = Min(search.t_end,
                                              search.center + lambert_depart_window_days)]
    /\ UNCHANGED <<engine, last, server>>

\* one pass of `while t_depart <= scan_end`: the loop over dt_candidates, the
\* return of best_leg with the guess stored; after the loop the centre moves
depart_step ==
    /\ search.pc = "depart"
    /\ IF search.t_depart > search.scan_end
       THEN /\ search' = [search EXCEPT !.pc = "window",
                                        !.center = @ + Synodic(search.source, search.target)]
            /\ UNCHANGED transfer_time_guess
       ELSE \E best \in {BestLegAt(Self, search.source, search.target, search.t_depart,
                                   search.dt_candidates, search.dt_guess)} :
               IF best # NoLeg
               THEN /\ search' = [search EXCEPT !.pc = "returned", !.leg = best]
                    /\ transfer_time_guess' =
                         [transfer_time_guess EXCEPT ![<<search.source, search.target>>] =
                                                        best.duration]
               ELSE /\ search' = [search EXCEPT !.t_depart = @ + search.depart_step]
                    /\ UNCHANGED transfer_time_guess
    /\ UNCHANGED <<world, schedules, schedule_end_times, last, server>>

\* an engine just constructed calls _find_next_lambert_leg
SearchInit ==
    /\ world \in SearchWorlds
    /\ schedules = <<>>
    /\ schedule_end_times = <<>>
    /\ transfer_time_guess = NewEngine(world).guess
    /\ last = [op |-> "init", t |-> 0, n |-> 0, raised |-> FALSE, ret |-> <<>>]
    /\ search \in {SearchCall(NewEngine(world), d[1], d[2], e, cfg)
                     : d \in Dirs, e \in EarliestTimes, cfg \in StepConfigs}
    /\ ServerStart

SearchNext ==
    \/ candidates_step
    \/ phase_scan_step
    \/ window_begin
    \/ depart_step

\* the call runs in one thread without awaiting anything: as long as it has
\* a next statement, that statement is executed
SearchSpec == SearchInit /\ [][SearchNext]_vars /\ WF_vars(SearchNext)

\* the call has ended: it returned a leg or raised the RuntimeError
SearchEnded == search.pc \in {"returned", "raised"}

\* what the call followed statement by statement ends with is what
\* FindNextLambertLeg computes for the same engine and arguments
StepwiseAgrees ==
    SearchEnded =>
        \E r \in {FindNextLambertLeg(NewEngine(world), search.source, search.target,
                                     search.earliest)} :
            /\ r.leg = search.leg
            /\ r.eng.guess = transfer_time_guess

\* C25: a launch-window search terminates.  It begins at most
\* ceil(horizon / synodic) + 2 windows, after a window without a feasible leg
\* the centre is one synodic period later, and the error is raised only when
\* all windows have been scanned; every pass of the loop that builds the
\* flight-time candidates, of the phase scan and of the departure scan moves
\* its variable strictly forward, also when the configured steps are zero or
\* negative, because those are replaced by the defaults; so every call ends.
C25_SearchTerminates ==
    /\ [](search.pc \in {"window", "depart", "returned", "raised"} =>
            /\ search.window <= CeilDiv(launch_scan_window_days,
                                        Synodic(search.source, search.target)) + 2
            /\ search.dt_step > 0 /\ search.depart_step > 0 /\ search.coarse_step > 0)
    /\ [][ /\ (search.pc = "candidates" /\ search'.pc = "candidates") =>
                search'.dt_start + search'.k * search'.dt_step
                  > search.dt_start + search.k * search.dt_step
           /\ (search.pc = "phase_scan" /\ search'.pc = "phase_scan") =>
                search'.t > search.t
           /\ (search.pc = "depart" /\ search'.pc = "depart") =>
                search'.t_depart > search.t_depart
           /\ (search.pc = "depart" /\ search'.pc = "window") =>
                /\ search'.center = search.center + Synodic(search.source, search.target)
                /\ search'.leg = NoLeg
           /\ (search'.pc = "raised") =>
                search.window = CeilDiv(launch_scan_window_days,
                                        Synodic(search.source, search.target)) + 2 ]_vars
    /\ <>SearchEnded

\* a search configured with non-positive steps scanned every window and raised
C25_Witness ==
    /\ search.pc = "raised"
    /\ search.cfg.depart_step <= 0 /\ search.cfg.dt_step <= 0 /\ search.cfg.coarse_step <= 0
    /\ search.window = 4

\* the leg of a mission in one direction
LegOf(schedule, d) ==
    IF d[1] = "earth" THEN schedule.leg_outbound ELSE schedule.leg_inbound

\* the duration of the leg of direction d of the last mission scheduled, and
\* the initial guess when no mission is scheduled
PrevDuration(d) ==
    IF schedules = <<>> THEN InitialTimeGuess
    ELSE LegOf(schedules[Len(schedules)], d).duration

\* earliest_time of the next outbound search: t_start of the next mission
NextStart == IF schedules = <<>> THEN 0 ELSE LastEnd

\* a search from the current state in direction d: a leg found is stored as
\* the guess of d and of nothing else, no leg found stores nothing
WarmStartPerDirection ==
    \A d \in Dirs :
        \E r \in {FindNextLambertLeg(Self, d[1], d[2], NextStart)} :
            /\ r.eng.guess[<<d[2], d[1]>>] = transfer_time_guess[<<d[2], d[1]>>]
            /\ r.eng.guess[d] = IF r.leg # NoLeg THEN r.leg.duration
                                ELSE transfer_time_guess[d]

\* the engine as the last successful append left it
AfterLastAppend ==
    Engine(world, schedules, schedule_end_times,
           (<<"earth", "mars">> :> PrevDuration(<<"earth", "mars">>)
              @@ <<"mars", "earth">> :> PrevDuration(<<"mars", "earth">>)))

\* the outbound guesses of self and of the engines that up to n failed
\* attempts to append the next mission lead to, one after the other
RECURSIVE RetryGuesses(_, _)
RetryGuesses(self, n) ==
    {self.guess[<<"earth", "mars">>]} \cup
      (IF n = 0 \/ ~(\E k \in 1..Len(AppendTable) : AppendTable[k][1] = self) THEN {}
       ELSE The({ IF r.raised /\ r.eng # self THEN RetryGuesses(r.eng, n - 1) ELSE {}
                : r \in {CallAppendNextSchedule(self)} }))

\* C26 as stated: the warm start is per direction, a failed search changes no
\* guess, and the guess the searches for mission k start from is the duration
\* of the leg of the same direction of mission k-1, 259 days for mission 0.
C26_GuessFromPreviousMission ==
    /\ WarmStartPerDirection
    /\ \A d \in Dirs : transfer_time_guess[d] = PrevDuration(d)

\* C26 amended: the warm start is per direction and a failed search changes
\* no guess; the inbound search for mission k starts from the duration of the
\* inbound leg of mission k-1 (259 days for mission 0); the outbound search
\* starts from the duration of the outbound leg of mission k-1 (259 days for
\* mission 0) on the first attempt to append mission k, and after an attempt
\* that failed at its inbound search from the duration of the outbound leg
\* that attempt found.
C26_GuessFromLastLegFound ==
    /\ WarmStartPerDirection
    /\ transfer_time_guess[<<"mars", "earth">>] = PrevDuration(<<"mars", "earth">>)
    /\ transfer_time_guess[<<"earth", "mars">>] \in RetryGuesses(AfterLastAppend, MaxMissions)

\* mission 0 was tried twice and failed at the inbound search both times: the
\* next outbound search starts from the flight time the second attempt found
C26_Witness ==
    /\ last.raised
    /\ schedules = <<>>
    /\ transfer_time_guess[<<"mars", "earth">>] = InitialTimeGuess
    /\ \E first \in {FindNextLambertLeg(NewEngine(world), "earth", "mars", 0)} :
          /\ first.leg # NoLeg
          /\ transfer_time_guess[<<"earth", "mars">>]
               \notin {InitialTimeGuess, first.leg.duration}

\* some handler takes up this command
CommandStep(command) ==
    \E c \in Connections, raw \in ArgsOf(command) : ws_command(c, command, raw)

\* C27: a stop command leaves is_running = false, paused = false and
\* current_time = 0, and while the simulation is stopped at time 0 the time
\* stays 0 under every interleaving until a set_time, and the simulation
\* stays stopped until a start; a tick task that resumes from its broadcast
\* adds nothing to current_time, since its test of is_running and paused and
\* its increment are one step.
C27_StopHoldsTimeAtZero ==
    [][ /\ CommandStep("stop") => (~is_running' /\ ~paused' /\ current_time' = 0)
        /\ (~is_running /\ current_time = 0) =>
              /\ current_time' # 0 => CommandStep("set_time")
              /\ is_running' => CommandStep("start")
        /\ (loop = "broadcast") =>
              (current_time' # current_time =>
                  CommandStep("set_time") \/ CommandStep("stop")) ]_vars

\* the stop arrived while the tick task was suspended inside the broadcast of
\* an update it had built while the simulation was running
C27_Witness ==
    /\ loop = "broadcast"
    /\ broadcast[0].message.simulation.is_running
    /\ handler[1].command = "stop"
    /\ handler[1].pc \in {"broadcast", "ack"}
    /\ ~is_running /\ ~paused /\ current_time = 0 /\ time_speed > 0

\* C28: in every state of the engine the end times mirror the schedule: both
\* have the same length, the k-th end time is the arrival of the inbound leg
\* of the k-th mission, the k-th mission has mission_index k (counted from
\* 0), and the end times increase strictly, as bisect_right requires.
C28_EndTimesMirrorSchedule ==
    /\ Len(schedule_end_times) = Len(schedules)
    /\ \A k \in 1..Len(schedules) :
          /\ schedule_end_times[k] = schedules[k].leg_inbound.t_arrive
          /\ schedules[k].mission_index = k - 1
    /\ \A k \in 1..(Len(schedule_end_times) - 1) :
          schedule_end_times[k] < schedule_end_times[k + 1]

\* the schedule has grown to its bound, mission by mission and over several
\* calls
C28_Witness ==
    /\ Len(schedule_end_times) = MaxMissions
    /\ schedule_end_times[MaxMissions] = schedules[MaxMissions].leg_inbound.t_arrive
    /\ last.op = "get_schedule_preview"

\* a pass of the tick task that advanced the time and built no update: the
\* build of the snapshot raised
FailingTick == simulation_loop /\ Advances(Sim) /\ updates' = updates

\* C29: when the build of the snapshot raises during a tick, the tick task
\* ends for good: the time keeps the increment of that tick, is_running
\* stays true and paused false, the handlers and their connections are left
\* as they were, and from then on the time changes and updates are built in
\* command handlers only.
C29_TickErrorEndsTickTask ==
    [][ /\ FailingTick =>
              /\ loop' = "ended"
              /\ current_time' = current_time + time_speed
              /\ is_running' /\ ~paused'
              /\ UNCHANGED <<handler, active_connections, broadcast, tasks, wire>>
        /\ (loop = "ended") =>
              /\ loop' = "ended"
              /\ ~simulation_loop
              /\ current_time' # current_time =>
                    CommandStep("set_time") \/ CommandStep("stop")
              /\ updates' # updates =>
                    \E command \in BroadcastCommands : CommandStep(command) ]_vars

\* the tick that crossed into the second mission raised because no window
\* was found for the mission after next; the time stands past the end of
\* the first mission and the simulation still counts as running
C29_Witness ==
    /\ loop = "ended"
    /\ is_running /\ ~paused
    /\ current_time = LastTickOfMission0 + time_speed
    /\ time_speed > 0
    /\ handler[1].pc = "receive"

\* after the tick task ended a handler took up a stop and broadcast its update
HandlersGoOnAfterTickError ==
    /\ loop = "ended"
    /\ ~is_running /\ current_time = 0
    /\ handler[1].command = "stop" /\ handler[1].pc \in {"broadcast", "ack"}

\* sim_state with paused negated
TogglePaused(st) == [st EXCEPT !.paused = ~@]

\* C30: pause is a toggle: whether or not the simulation runs, a pause
\* command negates paused and leaves is_running, current_time and time_speed
\* as they are, so a second pause right after it restores sim_state; a start
\* command ends with is_running = true and paused = false and leaves
\* current_time and time_speed as they are.
C30_PauseTogglesStartClears ==
    [][ /\ CommandStep("pause") =>
              /\ Sim' = TogglePaused(Sim)
              /\ TogglePaused(Sim') = Sim
        /\ CommandStep("start") =>
              Sim' = SimState(TRUE, FALSE, current_time, time_speed) ]_vars

\* a pause was taken up while the simulation was stopped and had paused it;
\* a start taken up next has cleared paused
C30_Witness ==
    /\ handler[2].command = "pause" /\ handler[2].pc = "broadcast"
    /\ broadcast[2].message.simulation.paused
    /\ ~broadcast[2].message.simulation.is_running
    /\ handler[1].command = "start" /\ handler[1].pc = "broadcast"
    /\ is_running /\ ~paused

\* two pause commands were taken up one after the other, by two handlers,
\* while the simulation ran: it is not paused
PausedTwice ==
    /\ handler[1].command = "pause" /\ handler[1].pc = "broadcast"
    /\ handler[2].command = "pause" /\ handler[2].pc = "broadcast"
    /\ broadcast[1].message.simulation.paused # broadcast[2].message.simulation.paused
    /\ is_running /\ ~paused

====
